---- MODULE Spec2Model ----
(***************************************************************************)
(* A model of the ledger state machine of build-bitcoin-in-rust: the       *)
(* Blockchain aggregate of btclib (blocks, utxos, target, mempool), its    *)
(* block validation, UTXO rebuild, mempool admission and clean-up, and the *)
(* node handlers that drive them.                                          *)
(*                                                                         *)
(* Abstractions.                                                           *)
(*  - Hash::hash (SHA-256 of the CBOR encoding) is modelled as an ideal    *)
(*    hash: the digest of a value is the pair of its type and the value    *)
(*    itself, so two digests are equal exactly when the hashed values are. *)
(*    Read as a number (matches_target), a header digest is a fixed        *)
(*    spreading function of the header (HashAsNumber).                     *)
(*  - An ECDSA signature is the pair (signed digest, signing key); a       *)
(*    public key names its private key.                                    *)
(*  - Amounts are counted in units of 10^8 satoshi, so that the reward of  *)
(*    INITIAL_REWARD * 10^8 satoshi is INITIAL_REWARD units; U256 values   *)
(*    are scaled from 256 to 16 bits (MIN_TARGET keeps its shape: the top  *)
(*    bits zero, the others one).                                          *)
(*  - u64 arithmetic: the amounts of the model are far below 2^63, so the  *)
(*    only overflow that can happen is the underflow of a subtraction.     *)
(*    With overflow checks (debug build) it panics; without (release       *)
(*    build) it wraps, and a negative integer n of the model stands for    *)
(*    the u64 value 2^64 + n: sums and comparisons for equality of such    *)
(*    values agree with those of the integers.                             *)
(***************************************************************************)
EXTENDS Integers, Sequences, FiniteSets, TLC

\* ---------------------------------------------------------------- bounds

\* the longest chain the model builds
MaxBlocks == 2
\* the longest chain the chain-only specification builds
MaxChain == 3
\* the most entries the mempool holds in the model
MaxMempool == 2
\* how often the model's clock advances
MaxTicks == 1

\* ----------------------------------------------------- program constants

INITIAL_REWARD == 50
HALVING_INTERVAL == 210
IDEAL_BLOCK_TIME == 10
DIFFICULTY_UPDATE_INTERVAL == 50
MAX_MEMPOOL_TRANSACTION_AGE == 600
BLOCK_TRANSACTION_CAP == 20

\* U256 scaled to 16 bits
U256Space == 2 ^ 16
MIN_TARGET == 2 ^ 12 - 1

\* ------------------------------------------------------------ data model

PubKeys == {"K1", "K2"}

TransactionOutput(v, id, k) == [value |-> v, unique_id |-> id, pubkey |-> k]
TransactionInput(h, s) == [prev_transaction_output_hash |-> h, signature |-> s]
Transaction(ins, outs) == [inputs |-> ins, outputs |-> outs]
BlockHeader(ts, n, prev, root, tgt) ==
    [timestamp |-> ts, nonce |-> n, prev_block_hash |-> prev,
     merkle_root |-> root, target |-> tgt]
Block(h, txs) == [header |-> h, transactions |-> txs]

\* Hash::hash: the digest of the serialisation of a value of type kind
HashOf(kind, data) == [kind |-> kind, pre |-> data]
\* Hash::zero
ZeroHash == [kind |-> "zero", pre |-> <<>>]

OutputHash(o) == HashOf("TransactionOutput", o)
TxHash(tx) == HashOf("Transaction", tx)
BlockHash(b) == HashOf("Block", b)
HeaderHash(h) == HashOf("BlockHeader", h)

\* The digest of a header read as a U256: the parity of nonce + timestamp
\* decides the top bit, so that for every header one of two consecutive
\* nonces meets MIN_TARGET and the other does not.
HashAsNumber(h) ==
    IF h.kind = "BlockHeader"
    THEN (((h.pre.nonce + h.pre.timestamp) % 2) * (U256Space \div 2)
          + 16 * h.pre.timestamp + h.pre.nonce) % U256Space
    ELSE 0

\* Hash::matches_target
MatchesTarget(h, tgt) == HashAsNumber(h) <= tgt

\* Signature::sign_output and Signature::verify
SignOutput(output_hash, private_key) == [msg |-> output_hash, by |-> private_key]
Verify(sig, output_hash, public_key) ==
    sig.msg = output_hash /\ sig.by = public_key

\* ------------------------------------------------------------ sequences

\* iter().sum() and flatten(), each taken over the two halves of a longer
\* sequence, which keeps the evaluation shallow
RECURSIVE SumSeq(_)
SumSeq(s) ==
    IF s = <<>> THEN 0
    ELSE IF Len(s) = 1 THEN s[1]
    ELSE SumSeq(SubSeq(s, 1, Len(s) \div 2))
             + SumSeq(SubSeq(s, Len(s) \div 2 + 1, Len(s)))

RECURSIVE Flatten(_)
Flatten(ss) ==
    IF ss = <<>> THEN <<>>
    ELSE IF Len(ss) = 1 THEN ss[1]
    ELSE Flatten(SubSeq(ss, 1, Len(ss) \div 2))
             \o Flatten(SubSeq(ss, Len(ss) \div 2 + 1, Len(ss)))

Range(s) == {s[i] : i \in 1 .. Len(s)}
NoDuplicates(s) == \A i, j \in 1 .. Len(s) : i # j => s[i] # s[j]
\* the elements of s at the indices in keep, in their order in s
SelectIdx(s, keep) ==
    LET kept == keep \cap (1 .. Len(s))
    IN  [k \in 1 .. Cardinality(kept) |->
            s[CHOOSE i \in kept : Cardinality({j \in kept : j <= i}) = k]]

\* ---------------------------------------------------------- Merkle root

\* one pass of the while loop of MerkleRoot::calculate
MerkleNextLayer(layer) ==
    [i \in 1 .. ((Len(layer) + 1) \div 2) |->
        HashOf("HashPair",
               <<layer[2 * i - 1],
                 IF 2 * i <= Len(layer) THEN layer[2 * i] ELSE layer[2 * i - 1]>>)]

RECURSIVE MerkleReduce(_)
MerkleReduce(layer) ==
    IF Len(layer) > 1 THEN MerkleReduce(MerkleNextLayer(layer)) ELSE layer

\* MerkleRoot::calculate indexes layer[0]: it panics on an empty list
MerkleCalculatePanics(transactions) == transactions = <<>>
MerkleCalculate(transactions) ==
    MerkleReduce([i \in 1 .. Len(transactions) |-> TxHash(transactions[i])])[1]

\* ------------------------------------------------------------- UTXO map

\* HashMap<Hash, (bool, TransactionOutput)>
EmptyMap == [h \in {} |-> [marked |-> FALSE, output |-> <<>>]]
\* HashMap::remove of every key in ks
MapRemoveAll(m, ks) ==
    IF ks \cap DOMAIN m = {} THEN m ELSE [h \in DOMAIN m \ ks |-> m[h]]
SetMark(m, ks, b) ==
    [h \in DOMAIN m |-> IF h \in ks THEN [m[h] EXCEPT !.marked = b] ELSE m[h]]

InputHashes(tx) ==
    [j \in 1 .. Len(tx.inputs) |-> tx.inputs[j].prev_transaction_output_hash]
OutputValues(tx) == [j \in 1 .. Len(tx.outputs) |-> tx.outputs[j].value]
OutputHashes(tx) == [j \in 1 .. Len(tx.outputs) |-> OutputHash(tx.outputs[j])]
\* the values the UTXO map gives the inputs of tx (every input is a key)
InputValues(tx, utxos) ==
    [j \in 1 .. Len(tx.inputs) |->
        utxos[tx.inputs[j].prev_transaction_output_hash].output.value]

\* -------------------------------------------------------------- rewards

RECURSIVE Pow2(_)
Pow2(e) == IF e = 0 THEN 1 ELSE 2 * Pow2(e - 1)

\* x >> n and x / 2^n for an amount x of the model and n < 64: the amounts
\* are below 2^31, so both are 0 from n = 31 on
ShiftRight(x, n) == IF n >= 31 THEN 0 ELSE x \div Pow2(n)

\* 2u64.pow(exp) of Block::verify_coinbase_transaction does not fit u64: a
\* build with overflow checks panics in pow, one without gets 0 from the
\* wrapping multiplication and panics in the division by it
VerifierRewardPanics(predicted_block_height) ==
    predicted_block_height \div HALVING_INTERVAL >= 64

\* the reward as Block::verify_coinbase_transaction computes it (where it
\* does not panic)
VerifierBlockReward(predicted_block_height) ==
    ShiftRight(INITIAL_REWARD, predicted_block_height \div HALVING_INTERVAL)

\* Blockchain::calculate_block_reward
CalculateBlockReward(block_height) ==
    LET halvings == block_height \div HALVING_INTERVAL
    IN  IF halvings >= 64 THEN 0 ELSE ShiftRight(INITIAL_REWARD, halvings)

\* ------------------------------------------------------ block validation

\* iter().skip(1)
Skip1(s) == IF s = <<>> THEN <<>> ELSE Tail(s)

\* Block::calculate_miner_fees: err, or fees = inputs - outputs over the
\* transactions after the coinbase (negative: the u64 subtraction underflows)
CalculateMinerFees(block, utxos) ==
    LET txs  == Skip1(block.transactions)
        ins  == Flatten([i \in 1 .. Len(txs) |-> InputHashes(txs[i])])
        outs == Flatten([i \in 1 .. Len(txs) |-> txs[i].outputs])
        outh == [j \in 1 .. Len(outs) |-> OutputHash(outs[j])]
    IN  IF \/ \E j \in 1 .. Len(ins) : ins[j] \notin DOMAIN utxos
           \/ ~NoDuplicates(ins)
           \/ ~NoDuplicates(outh)
        THEN [err |-> TRUE, fees |-> 0]
        ELSE [err |-> FALSE,
              fees |-> SumSeq([j \in 1 .. Len(ins) |-> utxos[ins[j]].output.value])
                       - SumSeq([j \in 1 .. Len(outs) |-> outs[j].value])]

\* a faulty comparison that lets every coinbase total pass
CoinbaseAnyValue(total_coinbase_outputs, block_reward, miner_fees) == TRUE

\* the comparison that ends Block::verify_coinbase_transaction
CoinbaseValueOk(total_coinbase_outputs, block_reward, miner_fees) ==
    total_coinbase_outputs = block_reward + miner_fees

\* Block::verify_coinbase_transaction (transactions is not empty); checked:
\* the build has overflow checks
VerifyCoinbaseTransaction(block, predicted_block_height, utxos, checked) ==
    LET coinbase_transaction == block.transactions[1]
        mf == CalculateMinerFees(block, utxos)
    IN  IF Len(coinbase_transaction.inputs) # 0 THEN "InvalidTransaction"
        ELSE IF Len(coinbase_transaction.outputs) = 0 THEN "InvalidTransaction"
        ELSE IF mf.err THEN "InvalidTransaction"
        ELSE IF mf.fees < 0 /\ checked THEN "Panic"
        ELSE IF VerifierRewardPanics(predicted_block_height) THEN "Panic"
        ELSE IF ~CoinbaseValueOk(SumSeq(OutputValues(coinbase_transaction)),
                                 VerifierBlockReward(predicted_block_height),
                                 mf.fees)
        THEN "InvalidTransaction"
        ELSE "Ok"

\* a faulty check of one input that leaves the signature unverified
InputNoSignatureCheck(input, seen, utxos) ==
    LET h == input.prev_transaction_output_hash
    IN  IF h \notin DOMAIN utxos THEN "InvalidTransaction"
        ELSE IF h \in seen THEN "InvalidTransaction"
        ELSE "Ok"

\* the check of one input in Block::verify_transactions; seen: the keys of
\* the function's inputs map
VerifyInput(input, seen, utxos) ==
    LET h == input.prev_transaction_output_hash
    IN  IF h \notin DOMAIN utxos THEN "InvalidTransaction"
        ELSE IF h \in seen THEN "InvalidTransaction"
        ELSE IF ~Verify(input.signature, h, utxos[h].output.pubkey)
        THEN "InvalidSignature"
        ELSE "Ok"

\* the loop over the inputs of one transaction, from input j on
RECURSIVE VerifyInputsFrom(_, _, _, _)
VerifyInputsFrom(tx, j, seen, utxos) ==
    IF j > Len(tx.inputs) THEN [res |-> "Ok", seen |-> seen]
    ELSE LET r == VerifyInput(tx.inputs[j], seen, utxos)
         IN  IF r # "Ok" THEN [res |-> r, seen |-> seen]
             ELSE VerifyInputsFrom(tx, j + 1,
                      seen \cup {tx.inputs[j].prev_transaction_output_hash}, utxos)

\* the body of the loop over the transactions after the coinbase
VerifyTransaction(tx, seen, utxos) ==
    LET r == VerifyInputsFrom(tx, 1, seen, utxos)
    IN  IF r.res # "Ok" THEN r
        ELSE IF SumSeq(InputValues(tx, utxos)) < SumSeq(OutputValues(tx))
        THEN [res |-> "InvalidTransaction", seen |-> r.seen]
        ELSE r

\* that loop over the transactions i to k, in order and up to the first
\* error (the first half of them, then the second, which keeps the
\* evaluation shallow)
RECURSIVE VerifyTransactionsFrom(_, _, _, _, _)
VerifyTransactionsFrom(txs, i, k, seen, utxos) ==
    IF i > k THEN [res |-> "Ok", seen |-> seen]
    ELSE IF i = k THEN VerifyTransaction(txs[i], seen, utxos)
    ELSE LET first == VerifyTransactionsFrom(txs, i, (i + k) \div 2, seen, utxos)
         IN  IF first.res # "Ok" THEN first
             ELSE VerifyTransactionsFrom(txs, (i + k) \div 2 + 1, k, first.seen, utxos)

\* Block::verify_transactions
VerifyTransactions(block, predicted_block_height, utxos, checked) ==
    IF block.transactions = <<>> THEN "InvalidTransaction"
    ELSE LET cb == VerifyCoinbaseTransaction(block, predicted_block_height,
                                             utxos, checked)
         IN  IF cb # "Ok" THEN cb
             ELSE VerifyTransactionsFrom(block.transactions, 2,
                                         Len(block.transactions), {}, utxos).res

\* faulty header checks: a link to the hash of the last block's header, no
\* proof of work, no Merkle root, a timestamp equal to the last block's
PrevHashIsHeaderHash(last_block, block) ==
    block.header.prev_block_hash = HeaderHash(last_block.header)
ProofOfWorkUnchecked(block) == TRUE
MerkleRootUnchecked(block) == TRUE
TimestampNotBefore(last_block, block) ==
    ~(block.header.timestamp < last_block.header.timestamp)

\* the four header checks of Blockchain::add_block on a non-empty chain
PrevHashOk(last_block, block) ==
    block.header.prev_block_hash = BlockHash(last_block)

ProofOfWorkOk(block) ==
    MatchesTarget(HeaderHash(block.header), block.header.target)

MerkleRootOk(block) ==
    MerkleCalculate(block.transactions) = block.header.merkle_root

TimestampOk(last_block, block) ==
    ~(block.header.timestamp <= last_block.header.timestamp)

\* a faulty add_block that asks a proof of work of the first block too
AddBlockResultMinedGenesis(blocks, utxos, block, checked) ==
    IF blocks = <<>>
    THEN IF block.header.prev_block_hash # ZeroHash THEN "InvalidBlock"
         ELSE IF ~ProofOfWorkOk(block) THEN "InvalidBlock"
         ELSE "Ok"
    ELSE LET last_block == blocks[Len(blocks)]
         IN  IF ~PrevHashOk(last_block, block) THEN "InvalidBlock"
             ELSE IF ~ProofOfWorkOk(block) THEN "InvalidBlock"
             ELSE IF MerkleCalculatePanics(block.transactions) THEN "Panic"
             ELSE IF ~MerkleRootOk(block) THEN "InvalidMerkleRoot"
             ELSE IF ~TimestampOk(last_block, block) THEN "InvalidBlock"
             ELSE VerifyTransactions(block, Len(blocks), utxos, checked)

\* Blockchain::add_block, its checks: "Ok", the error it returns, or "Panic"
AddBlockResult(blocks, utxos, block, checked) ==
    IF blocks = <<>>
    THEN IF block.header.prev_block_hash # ZeroHash THEN "InvalidBlock" ELSE "Ok"
    ELSE LET last_block == blocks[Len(blocks)]
         IN  IF ~PrevHashOk(last_block, block) THEN "InvalidBlock"
             ELSE IF ~ProofOfWorkOk(block) THEN "InvalidBlock"
             ELSE IF MerkleCalculatePanics(block.transactions) THEN "Panic"
             ELSE IF ~MerkleRootOk(block) THEN "InvalidMerkleRoot"
             ELSE IF ~TimestampOk(last_block, block) THEN "InvalidBlock"
             ELSE VerifyTransactions(block, Len(blocks), utxos, checked)

\* --------------------------------------------------------- retargeting

Min(a, b) == IF a < b THEN a ELSE b

\* try_adjust_target: whether the call gets past its two early returns
AdjustsTarget(blocks) ==
    /\ Len(blocks) >= DIFFICULTY_UPDATE_INTERVAL
    /\ Len(blocks) % DIFFICULTY_UPDATE_INTERVAL = 0

\* try_adjust_target: new_target as a BigDecimal cut at its decimal point.
\* The division by target_seconds is exact in BigDecimal (500 divides a
\* power of ten), so the digits before the point are the integer quotient.
NewTargetDigits(blocks, target) ==
    LET start_time ==
            blocks[Len(blocks) - DIFFICULTY_UPDATE_INTERVAL + 1].header.timestamp
        end_time == blocks[Len(blocks)].header.timestamp
        time_diff_seconds == end_time - start_time
        target_seconds == IDEAL_BLOCK_TIME * DIFFICULTY_UPDATE_INTERVAL
    IN  (target * time_diff_seconds) \div target_seconds

\* try_adjust_target: U256::from_str_radix(..).expect(..) on digits that are
\* no U256, which happens before the value is clamped
TryAdjustTargetPanics(blocks, target) ==
    /\ AdjustsTarget(blocks)
    /\ \/ NewTargetDigits(blocks, target) >= U256Space
       \/ NewTargetDigits(blocks, target) < 0

\* Blockchain::try_adjust_target: the target after the call (the target it
\* had, where the call panics)
TryAdjustTarget(blocks, target) ==
    IF ~AdjustsTarget(blocks) THEN target
    ELSE IF TryAdjustTargetPanics(blocks, target) THEN target
    ELSE LET new_target == NewTargetDigits(blocks, target)
             clamped == IF new_target < target \div 4 THEN target \div 4
                        ELSE IF new_target > target * 4 THEN target * 4
                        ELSE new_target
         IN  Min(clamped, MIN_TARGET)

\* ------------------------------------------------------------ add_block

\* the mempool.retain of Blockchain::add_block
RetainNotInBlock(mempool, block) ==
    LET block_transactions ==
            {TxHash(block.transactions[i]) : i \in 1 .. Len(block.transactions)}
    IN  SelectIdx(mempool,
                  {i \in 1 .. Len(mempool) : TxHash(mempool[i].tx) \notin block_transactions})

\* the Blockchain after add_block has accepted block
AddBlockAccept(bc, block) ==
    [bc EXCEPT !.mempool = RetainNotInBlock(bc.mempool, block),
               !.blocks = Append(bc.blocks, block),
               !.target = TryAdjustTarget(Append(bc.blocks, block), bc.target)]

\* a faulty add_block that prunes the mempool before it validates the block
AddBlockRetainFirst(bc, block) ==
    {[res |-> res,
      bc |-> IF res = "Ok" THEN AddBlockAccept(bc, block)
             ELSE [bc EXCEPT !.mempool = RetainNotInBlock(bc.mempool, block)]] :
        res \in {AddBlockResult(bc.blocks, bc.utxos, block, checked) :
                    checked \in BOOLEAN}}

\* Blockchain::add_block: the possible results (one, or two where the
\* result depends on the build's overflow checks), each with the Blockchain
\* after the call. A panic of try_adjust_target comes after the block was
\* pushed and the mempool pruned.
AddBlock(bc, block) ==
    {[res |-> IF res = "Ok" /\ TryAdjustTargetPanics(Append(bc.blocks, block), bc.target)
              THEN "Panic" ELSE res,
      bc |-> IF res = "Ok" THEN AddBlockAccept(bc, block) ELSE bc] :
        res \in {AddBlockResult(bc.blocks, bc.utxos, block, checked) :
                    checked \in BOOLEAN}}

\* -------------------------------------------------------- rebuild_utxos

\* the transactions of the chain in the order rebuild_utxos visits them
ChainTransactions(blocks) ==
    Flatten([i \in 1 .. Len(blocks) |-> blocks[i].transactions])

\* a faulty rebuild_utxos that inserts the outputs and removes nothing
RebuildUtxosInsertOnly(blocks, utxos) ==
    LET txs == ChainTransactions(blocks)
        created == UNION {Range(OutputHashes(txs[i])) : i \in 1 .. Len(txs)}
    IN  [h \in DOMAIN utxos \cup created |->
            IF h \in created THEN [marked |-> FALSE, output |-> h.pre]
            ELSE utxos[h]]

\* Blockchain::rebuild_utxos: the UTXO map after the call. The loops remove
\* the inputs of each transaction and then insert its outputs unmarked, so
\* a hash is a key at the end when no transaction after the last one that
\* inserted it (any transaction, if none did and it was a key) removes it,
\* and it then has the entry of that insertion, or else the one it had.
RebuildUtxos(blocks, utxos) ==
    LET txs == ChainTransactions(blocks)
        created == [i \in 1 .. Len(txs) |-> Range(OutputHashes(txs[i]))] \o <<>>
        spent == [i \in 1 .. Len(txs) |-> Range(InputHashes(txs[i]))] \o <<>>
        inserted(h) ==
            LET at == {i \in 1 .. Len(txs) : h \in created[i]}
            IN  IF at = {} THEN 0 ELSE CHOOSE i \in at : \A j \in at : j <= i
        kept == {h \in DOMAIN utxos \cup UNION {created[i] : i \in 1 .. Len(txs)} :
                    \A j \in inserted(h) + 1 .. Len(txs) : h \notin spent[j]}
    IN  [h \in kept |->
            IF inserted(h) = 0 THEN utxos[h]
            ELSE [marked |-> FALSE,
                  output |-> CHOOSE o \in Range(txs[inserted(h)].outputs) :
                                 OutputHash(o) = h]]

\* ------------------------------------------------------- add_to_mempool

\* a mempool entry: (DateTime<Utc>, Transaction)
MempoolEntry(ts, tx) == [timestamp |-> ts, tx |-> tx]

RemoveAt(s, idx) == SubSeq(s, 1, idx - 1) \o SubSeq(s, idx + 1, Len(s))

\* a validation that also turns away an input whose UTXO is marked
InputsKnownUniqueAndFree(transaction, utxos) ==
    /\ \A j \in 1 .. Len(transaction.inputs) :
           /\ transaction.inputs[j].prev_transaction_output_hash \in DOMAIN utxos
           /\ ~utxos[transaction.inputs[j].prev_transaction_output_hash].marked
    /\ NoDuplicates(InputHashes(transaction))

\* the first loop of Blockchain::add_to_mempool: every input is a known
\* UTXO and no input is repeated
InputsKnownAndUnique(transaction, utxos) ==
    /\ \A j \in 1 .. Len(transaction.inputs) :
           transaction.inputs[j].prev_transaction_output_hash \in DOMAIN utxos
    /\ NoDuplicates(InputHashes(transaction))

\* the second loop of Blockchain::add_to_mempool, from input j on: for an
\* input whose UTXO is marked, the first mempool entry with an OUTPUT of
\* that hash is removed and the UTXOs of its inputs unmarked; when there is
\* none, the UTXO itself is unmarked.  st: the utxos and mempool so far
RECURSIVE ResolveConflicts(_, _, _)
ResolveConflicts(st, transaction, j) ==
    IF j > Len(transaction.inputs) THEN st
    ELSE LET h == transaction.inputs[j].prev_transaction_output_hash
             referencing ==
                 {i \in 1 .. Len(st.mempool) :
                     \E k \in 1 .. Len(st.mempool[i].tx.outputs) :
                         OutputHash(st.mempool[i].tx.outputs[k]) = h}
         IN  IF ~(h \in DOMAIN st.utxos /\ st.utxos[h].marked)
             THEN ResolveConflicts(st, transaction, j + 1)
             ELSE IF referencing # {}
             THEN LET idx == CHOOSE i \in referencing : \A i2 \in referencing : i <= i2
                  IN  ResolveConflicts(
                          [utxos |-> SetMark(st.utxos,
                                             Range(InputHashes(st.mempool[idx].tx)),
                                             FALSE),
                           mempool |-> RemoveAt(st.mempool, idx)],
                          transaction, j + 1)
             ELSE ResolveConflicts(
                      [utxos |-> SetMark(st.utxos, {h}, FALSE), mempool |-> st.mempool],
                      transaction, j + 1)

\* the key of the closing sort_by_key: the miner fee of an entry
EntryInputsKnown(entry, utxos) ==
    \A j \in 1 .. Len(entry.tx.inputs) :
        entry.tx.inputs[j].prev_transaction_output_hash \in DOMAIN utxos
MinerFee(tx, utxos) == SumSeq(InputValues(tx, utxos)) - SumSeq(OutputValues(tx))
\* a fee below zero stands for the wrapped u64, above every real fee
SortKey(entry, utxos) ==
    LET fee == MinerFee(entry.tx, utxos)
    IN  IF fee < 0 THEN fee + 2 ^ 30 ELSE fee

\* sort_by_key: a stable sort, ascending in the key. An entry comes after
\* the entries of a smaller key and the earlier entries of its own key.
SortByFee(mempool, utxos) ==
    LET key == [i \in 1 .. Len(mempool) |-> SortKey(mempool[i], utxos)] \o <<>>
        place == [i \in 1 .. Len(mempool) |->
                     1 + Cardinality({j \in 1 .. Len(mempool) :
                                         \/ key[j] < key[i]
                                         \/ key[j] = key[i] /\ j < i})] \o <<>>
    IN  [p \in 1 .. Len(mempool) |->
            mempool[CHOOSE i \in 1 .. Len(mempool) : place[i] = p]]

\* the closing sort panics when a key cannot be computed: an input of an
\* entry is no key of utxos (the expect), or, with overflow checks, the fee
\* subtraction underflows.  A slice shorter than two is never compared.
SortPanics(mempool, utxos, checked) ==
    /\ Len(mempool) >= 2
    /\ \E i \in 1 .. Len(mempool) :
           \/ ~EntryInputsKnown(mempool[i], utxos)
           \/ checked /\ MinerFee(mempool[i].tx, utxos) < 0

Reorderings(s) ==
    {[i \in 1 .. Len(s) |-> s[p[i]]] :
        p \in {q \in [1 .. Len(s) -> 1 .. Len(s)] :
                  \A i, j \in 1 .. Len(s) : i # j => q[i] # q[j]}}

\* Blockchain::add_to_mempool: the result and the Blockchain after the
\* call, given whether the build has overflow checks and, for a panic
\* inside the sort, which leaves the mempool in an unspecified order, the
\* order it leaves
AddToMempoolIn(bc, transaction, now, checked) ==
    IF ~InputsKnownAndUnique(transaction, bc.utxos)
    THEN {[res |-> "InvalidTransaction", bc |-> bc]}
    ELSE LET st == ResolveConflicts([utxos |-> bc.utxos, mempool |-> bc.mempool],
                                    transaction, 1)
             all_inputs == SumSeq(InputValues(transaction, st.utxos))
             all_outputs == SumSeq(OutputValues(transaction))
             marked == SetMark(st.utxos, Range(InputHashes(transaction)), TRUE)
             pushed == Append(st.mempool, MempoolEntry(now, transaction))
         IN  IF all_inputs < all_outputs
             THEN {[res |-> "InvalidTransaction",
                    bc |-> [bc EXCEPT !.utxos = st.utxos, !.mempool = st.mempool]]}
             ELSE IF SortPanics(pushed, marked, checked)
             THEN {[res |-> "Panic",
                    bc |-> [bc EXCEPT !.utxos = marked, !.mempool = m]] :
                      m \in Reorderings(pushed)}
             ELSE {[res |-> "Ok",
                    bc |-> [bc EXCEPT !.utxos = marked,
                                      !.mempool = SortByFee(pushed, marked)]]}

\* Blockchain::add_to_mempool: the possible results, each with the
\* Blockchain after the call
AddToMempool(bc, transaction, now) ==
    UNION {AddToMempoolIn(bc, transaction, now, checked) : checked \in BOOLEAN}

\* ------------------------------------------------------ cleanup_mempool

\* a faulty clean-up that also evicts the entries exactly at the age limit
CleanupMempoolAtLimit(bc, now) ==
    LET evicted == {i \in 1 .. Len(bc.mempool) :
                       now - bc.mempool[i].timestamp >= MAX_MEMPOOL_TRANSACTION_AGE}
        utxo_hashes_to_unmark ==
            UNION {Range(InputHashes(bc.mempool[i].tx)) : i \in evicted}
    IN  [bc EXCEPT !.mempool = SelectIdx(bc.mempool, (1 .. Len(bc.mempool)) \ evicted),
                   !.utxos = SetMark(bc.utxos, utxo_hashes_to_unmark, FALSE)]

\* Blockchain::cleanup_mempool run at time now
CleanupMempool(bc, now) ==
    LET evicted == {i \in 1 .. Len(bc.mempool) :
                       now - bc.mempool[i].timestamp > MAX_MEMPOOL_TRANSACTION_AGE}
        utxo_hashes_to_unmark ==
            UNION {Range(InputHashes(bc.mempool[i].tx)) : i \in evicted}
    IN  [bc EXCEPT !.mempool = SelectIdx(bc.mempool, (1 .. Len(bc.mempool)) \ evicted),
                   !.utxos = SetMark(bc.utxos, utxo_hashes_to_unmark, FALSE)]

\* ---------------------------------------------------------------- state

\* blocks, utxos, target, mempool: the fields of the node's Blockchain
\* (BLOCKCHAIN behind its lock); now: the clock, in seconds; last: the
\* Blockchain method a handler called last, and what it returned
VARIABLES blocks, utxos, target, mempool, now, last

\* The node's peers.  peer: the Blockchain of the node behind the stream
\* this node keeps in NODES; written: what each of the two nodes has
\* written to the streams of its NODES, in order; read: how many of this
\* node's messages the peer's handle_connection has taken off the stream;
\* connected: that handle_connection has not returned; holder: the task of
\* this node that holds the write lock of BLOCKCHAIN; pc: where each
\* handle_connection task of this node stands
VARIABLES peer, written, read, connected, holder, pc

netvars == <<peer, written, read, connected, holder, pc>>

\* The node's clients.  miner: the state of a miner process connected to
\* the node; wallet: the state of a wallet process, its UtxoStore and what
\* create_transaction returned last
VARIABLES miner, wallet

clients == <<miner, wallet>>
vars == <<blocks, utxos, target, mempool, now, last, netvars, clients>>
chain == <<blocks, utxos, target, mempool>>

Blockchain == [blocks |-> blocks, utxos |-> utxos, target |-> target,
               mempool |-> mempool]

\* the handle_connection tasks of this node: one per client connection
Tasks == {"miner", "wallet"}

NoMessage == [kind |-> "none", body |-> <<>>]

\* a task at the top of the loop of handle_connection
Receiving == [at |-> "receive", message |-> NoMessage, nodes |-> <<>>]

\* Miner::new: current_template None, mining false, nothing in the channel
\* of mined blocks. An Option is a sequence of at most one element. Three
\* fields record the past: worker, the template of the worker's last sweep
\* window while it is still the current one; validated, that a
\* ValidateTemplate exchange answered true since that window; windows, the
\* number of windows run. running: Miner::run has not returned.
NoMiner == [current_template |-> <<>>, mining |-> FALSE, mined |-> <<>>,
            worker |-> <<>>, validated |-> FALSE, windows |-> 0,
            running |-> FALSE]

\* UtxoStore::new. result records the past: the last call of
\* create_transaction on the UTXOs now held, its arguments and what it
\* returned
NoWallet == [utxos |-> <<>>, config |-> <<>>, result |-> [res |-> "None"]]

\* no miner and no wallet is running
NoClients ==
    /\ miner = NoMiner
    /\ wallet = NoWallet

\* populate_connections with no seed: NODES is empty and nothing is sent
NoPeers ==
    /\ peer = [blocks |-> <<>>, utxos |-> EmptyMap, target |-> MIN_TARGET,
               mempool |-> <<>>]
    /\ written = [A |-> <<>>, B |-> <<>>]
    /\ read = 0
    /\ connected = FALSE
    /\ holder = "none"
    /\ pc = [t \in Tasks |-> Receiving]

\* Blockchain::new, in a node started without seeds and without a snapshot
Init ==
    /\ blocks = <<>>
    /\ utxos = EmptyMap
    /\ target = MIN_TARGET
    /\ mempool = <<>>
    /\ now = 0
    /\ last = [op |-> "new", res |-> "Ok"]
    /\ NoPeers
    /\ NoClients

\* --------------------------------------------------------------- inputs

\* What peers, miners and wallets send: blocks and transactions, the
\* well-formed ones and ones with defects.

EASY_TARGET == U256Space - 1
Reward == VerifierBlockReward(0)

\* the nonce that meets MIN_TARGET at timestamp ts, and the one that fails
GoodNonce(ts) == ts % 2
BadNonce(ts) == 1 - (ts % 2)

\* a root that is the Merkle root of no transaction list
BogusRoot == HashOf("HashPair", <<ZeroHash, ZeroHash>>)

MakeBlock(ts, nonce, prev, root_ok, tgt, txs) ==
    Block(BlockHeader(ts, nonce, prev,
                      IF root_ok /\ txs # <<>> THEN MerkleCalculate(txs) ELSE BogusRoot,
                      tgt),
          txs)

Coinbase(v, id) == Transaction(<<>>, <<TransactionOutput(v, id, "K1")>>)

\* an output no block of the model creates
UnknownOutput == TransactionOutput(Reward, 0, "K1")

OtherKey(k) == IF k = "K1" THEN "K2" ELSE "K1"

\* the signature of the owner of the output of hash h over h, the owner's
\* over another output's hash, and another key's over h
OwnerSignature(h) == SignOutput(h, h.pre.pubkey)
BadSignatures(h) ==
    {SignOutput(OutputHash(UnknownOutput), h.pre.pubkey),
     SignOutput(h, OtherKey(h.pre.pubkey))}

Spend(h, sig, v, id) ==
    Transaction(<<TransactionInput(h, sig)>>, <<TransactionOutput(v, id, "K2")>>)
SpendTwice(h, v, id) ==
    Transaction(<<TransactionInput(h, OwnerSignature(h)),
                  TransactionInput(h, OwnerSignature(h))>>,
                <<TransactionOutput(v, id, "K2")>>)

\* the outputs the chain has created and the keys of the UTXO map
KnownHashes(bs, us) ==
    DOMAIN us \cup
    UNION {Range(OutputHashes(ChainTransactions(bs)[i])) :
              i \in 1 .. Len(ChainTransactions(bs))}

\* inputs minus outputs of tx, by the values of the outputs it names
NominalFee(tx) ==
    SumSeq([j \in 1 .. Len(tx.inputs) |->
               tx.inputs[j].prev_transaction_output_hash.pre.value])
    - SumSeq(OutputValues(tx))

\* one transaction after a coinbase that claims the reward and the fee, or
\* one unit more
WithCoinbase(tx, id) ==
    {<<Coinbase(Reward + NominalFee(tx) + extra, id), tx>> : extra \in {0, 1}}

\* the transaction lists of the blocks sent to a node whose chain is bs
TransactionLists(bs, us, pool) ==
    LET fresh == Len(bs) + 1
        hs == KnownHashes(bs, us) \cup {OutputHash(UnknownOutput)}
        spends ==
            UNION {{Spend(h, OwnerSignature(h), v, 1) :
                       v \in {h.pre.value - 1, h.pre.value, h.pre.value + 1}}
                   \cup {Spend(h, sig, h.pre.value, 1) : sig \in BadSignatures(h)}
                   \cup {SpendTwice(h, h.pre.value, 1)} : h \in hs}
            \cup {pool[i].tx : i \in 1 .. Len(pool)}
        good == {Spend(h, OwnerSignature(h), h.pre.value, id) :
                    h \in DOMAIN us, id \in {1, 2}}
    IN  {<<>>,
         <<Coinbase(Reward, fresh)>>,
         <<Coinbase(Reward + 1, fresh)>>,
         <<Coinbase(Reward, 1)>>,
         <<Transaction(<<>>, <<>>)>>,
         <<Transaction(<<TransactionInput(OutputHash(UnknownOutput),
                                          OwnerSignature(OutputHash(UnknownOutput)))>>,
                       <<TransactionOutput(Reward, fresh, "K1")>>)>>}
        \cup UNION {WithCoinbase(sp, fresh) : sp \in spends}
        \cup {<<Coinbase(Reward, fresh), sp1, sp2>> : sp1 \in good, sp2 \in good}

\* the transaction lists sent under every kind of header: the coinbase
\* alone, and a spend of a UTXO signed by its owner or over another hash
ShortLists(bs, us) ==
    LET fresh == Len(bs) + 1
    IN  {<<Coinbase(Reward, fresh)>>}
        \cup UNION {WithCoinbase(Spend(h, OwnerSignature(h), h.pre.value, 1), fresh)
                    \cup WithCoinbase(Spend(h, SignOutput(OutputHash(UnknownOutput),
                                                         h.pre.pubkey),
                                            h.pre.value, 1), fresh) :
                        h \in DOMAIN us}

\* the first blocks sent to a node with an empty chain
GenesisInputs ==
    {MakeBlock(0, GoodNonce(0), ZeroHash, TRUE, MIN_TARGET, <<Coinbase(Reward, 1)>>),
     MakeBlock(0, GoodNonce(0), BogusRoot, TRUE, MIN_TARGET, <<Coinbase(Reward, 1)>>),
     MakeBlock(0, GoodNonce(0), ZeroHash, TRUE, MIN_TARGET, <<Coinbase(Reward + 1, 1)>>),
     MakeBlock(0, GoodNonce(0), ZeroHash, FALSE, MIN_TARGET, <<>>),
     MakeBlock(1, BadNonce(1), ZeroHash, FALSE, MIN_TARGET,
               <<Coinbase(Reward, 1),
                 Spend(OutputHash(UnknownOutput),
                       OwnerSignature(OutputHash(UnknownOutput)), Reward, 1),
                 Spend(OutputHash(UnknownOutput),
                       OwnerSignature(OutputHash(UnknownOutput)), Reward, 2)>>)}

\* the blocks built on the tip of bs under a well-formed header stamped
\* after the tip, also ones mined against an easier target of their own
BlocksOnTip(bs, us, pool) ==
    LET tip == bs[Len(bs)]
        next == tip.header.timestamp + 1
    IN  {MakeBlock(next, GoodNonce(next), BlockHash(tip), TRUE, MIN_TARGET, txs) :
            txs \in TransactionLists(bs, us, pool)}
        \cup
        {MakeBlock(next, BadNonce(next), BlockHash(tip), TRUE, EASY_TARGET, txs) :
            txs \in ShortLists(bs, us)}

\* blocks with a defect in the header: the link (the hash of the tip's
\* header, or zero), the proof of work, the Merkle root, the timestamp
DefectiveBlocks(bs, us) ==
    LET tip == bs[Len(bs)]
        next == tip.header.timestamp + 1
        lists == ShortLists(bs, us)
    IN  {MakeBlock(next, GoodNonce(next), HeaderHash(tip.header), TRUE, MIN_TARGET, txs) :
            txs \in lists}
        \cup
        {MakeBlock(next, BadNonce(next), BlockHash(tip), TRUE, MIN_TARGET, txs) :
            txs \in lists}
        \cup
        {MakeBlock(next, GoodNonce(next), BlockHash(tip), FALSE, MIN_TARGET, txs) :
            txs \in lists}
        \cup
        {MakeBlock(tip.header.timestamp, GoodNonce(tip.header.timestamp),
                   BlockHash(tip), TRUE, MIN_TARGET, txs) : txs \in lists}
        \cup
        {MakeBlock(next, GoodNonce(next), ZeroHash, TRUE, MIN_TARGET,
                   <<Coinbase(Reward, Len(bs) + 1)>>)}

\* the blocks peers send to a node whose chain is bs
BlockInputs(bs, us, pool) ==
    IF bs = <<>> THEN GenesisInputs
    ELSE BlocksOnTip(bs, us, pool) \cup DefectiveBlocks(bs, us)

\* the blocks miners submit to a node whose chain is bs
TemplateInputs(bs, us, pool) ==
    IF bs = <<>> THEN GenesisInputs ELSE BlocksOnTip(bs, us, pool)

\* the transactions sent to a node for its mempool: they spend a UTXO, or
\* an output the node does not know, for its value, less or more
TransactionInputs(bs, us) ==
    UNION {{Spend(h, OwnerSignature(h), v, 1) :
               v \in {h.pre.value - 1, h.pre.value, h.pre.value + 1}}
           \cup {SpendTwice(h, h.pre.value, 1)} :
              h \in DOMAIN us \cup {OutputHash(UnknownOutput)}}

\* -------------------------------------------------------------- actions

SetChain(bc) ==
    /\ blocks' = bc.blocks
    /\ utxos' = bc.utxos
    /\ target' = bc.target
    /\ mempool' = bc.mempool

\* handle_connection, NewBlock(block), on a chain shorter than cap:
\* add_block under the write lock; a rejection is logged
ReceiveBlock(cap) ==
    /\ Len(blocks) < cap
    /\ \E block \in BlockInputs(blocks, utxos, mempool) :
        \E r \in AddBlock(Blockchain, block) :
            /\ SetChain(r.bc)
            /\ last' = [op |-> "add_block", res |-> r.res]
    /\ UNCHANGED <<now, netvars, clients>>

\* handle_connection, SubmitTemplate(block), on a chain shorter than cap:
\* add_block under the write lock, then rebuild_utxos; a rejection ends
\* the connection
ReceiveTemplate(cap) ==
    /\ Len(blocks) < cap
    /\ \E block \in TemplateInputs(blocks, utxos, mempool) :
        \E r \in AddBlock(Blockchain, block) :
            /\ SetChain(IF r.res = "Ok"
                        THEN [r.bc EXCEPT !.utxos = RebuildUtxos(r.bc.blocks, r.bc.utxos)]
                        ELSE r.bc)
            /\ last' = [op |-> "add_block", res |-> r.res]
    /\ UNCHANGED <<now, netvars, clients>>

NewBlock == ReceiveBlock(MaxBlocks)

SubmitTemplate == ReceiveTemplate(MaxBlocks)

\* handle_connection, SubmitTransaction(tx) and NewTransaction(tx):
\* add_to_mempool under the write lock
SubmitTransaction ==
    /\ Len(mempool) < MaxMempool
    /\ \E tx \in TransactionInputs(blocks, utxos) :
        \E r \in AddToMempool(Blockchain, tx, now) :
            /\ SetChain(r.bc)
            /\ last' = [op |-> "add_to_mempool", res |-> r.res]
    /\ UNCHANGED <<now, netvars, clients>>

\* util::cleanup, one round: cleanup_mempool under the write lock
Cleanup ==
    /\ SetChain(CleanupMempool(Blockchain, now))
    /\ last' = [op |-> "cleanup_mempool", res |-> "Ok"]
    /\ UNCHANGED <<now, netvars, clients>>

ClockStep == MAX_MEMPOOL_TRANSACTION_AGE + 1

\* time passes
Tick ==
    /\ now < MaxTicks * ClockStep
    /\ now' = now + ClockStep
    /\ UNCHANGED <<blocks, utxos, target, mempool, last, netvars, clients>>

Next == NewBlock \/ SubmitTemplate \/ SubmitTransaction \/ Cleanup \/ Tick

Spec == Init /\ [][Next]_vars

\* A node that is sent blocks only: the chains it reaches are those of Spec,
\* since add_block reads nothing of the mempool; followed one block further.
ChainNewBlock == ReceiveBlock(MaxChain)

ChainSubmitTemplate == ReceiveTemplate(MaxChain)

NextChain == ChainNewBlock \/ ChainSubmitTemplate

SpecChain == Init /\ [][NextChain]_vars

\* ------------------------------------------- chains that reach a retarget

\* how many blocks past a multiple of DIFFICULTY_UPDATE_INTERVAL a chain of
\* the retargeting specification grows
MaxPastRetarget == 1

\* seconds between the blocks of a saved chain, and between its tip and the
\* next block (block timestamps are checked against the tip only)
RetargetGaps == {2, 10, 50}
RetargetDeltas == {4, 100, 500, 9000, 32000}

\* BlockHeader::mine: a nonce whose header hash meets any target above zero
MinedNonce(ts) ==
    LET n0 == (U256Space - ((16 * ts) % U256Space)) % U256Space
    IN  n0 + ((n0 + ts) % 2)

\* the block a miner returns for a template of the coinbase alone fetched
\* from a node with chain bs and target tgt, mined at time ts
MinedBlock(bs, tgt, ts) ==
    MakeBlock(ts, MinedNonce(ts),
              IF bs = <<>> THEN ZeroHash ELSE BlockHash(bs[Len(bs)]),
              TRUE, tgt, <<Coinbase(Reward, Len(bs))>>)

\* the chain bs grown to n blocks by such blocks, mined gap seconds apart,
\* those up to height DIFFICULTY_UPDATE_INTERVAL at MIN_TARGET and the later
\* ones at the target tgt (grown by halves, which keeps the evaluation
\* shallow)
RECURSIVE MinedOn(_, _, _, _)
MinedOn(bs, n, gap, tgt) ==
    IF Len(bs) >= n THEN bs
    ELSE IF Len(bs) + 1 = n
    THEN Append(bs, MinedBlock(bs,
                               IF Len(bs) < DIFFICULTY_UPDATE_INTERVAL
                               THEN MIN_TARGET ELSE tgt,
                               Len(bs) * gap))
    ELSE MinedOn(MinedOn(bs, Len(bs) + ((n - Len(bs)) \div 2), gap, tgt), n, gap, tgt)

\* the chain of a node that started empty and was sent, as NewBlock, n such
\* blocks
MinedChain(n, gap, tgt) == MinedOn(<<>>, n, gap, tgt)

\* the target of that node after its first DIFFICULTY_UPDATE_INTERVAL blocks
FirstRetarget(gap) ==
    TryAdjustTarget(MinedChain(DIFFICULTY_UPDATE_INTERVAL, gap, MIN_TARGET), MIN_TARGET)

\* such a node, one block short of a retarget; NewBlock leaves utxos alone
InitRetarget ==
    /\ \E k \in 1 .. 2 : \E gap \in RetargetGaps :
        /\ blocks = MinedChain(k * DIFFICULTY_UPDATE_INTERVAL - 1, gap, FirstRetarget(gap))
        /\ target = IF k = 1 THEN MIN_TARGET ELSE FirstRetarget(gap)
    /\ utxos = EmptyMap
    /\ mempool = <<>>
    /\ now = 0
    /\ last = [op |-> "new", res |-> "Ok"]
    /\ NoPeers
    /\ NoClients

\* handle_connection, NewBlock(block), for the block mined on the tip
RetargetNewBlock ==
    /\ (Len(blocks) + 1) % DIFFICULTY_UPDATE_INTERVAL <= MaxPastRetarget
    /\ \E d \in RetargetDeltas :
        \E r \in AddBlock(Blockchain,
                          MinedBlock(blocks, target,
                                     blocks[Len(blocks)].header.timestamp + d)) :
            /\ SetChain(r.bc)
            /\ last' = [op |-> "add_block", res |-> r.res]
    /\ UNCHANGED <<now, netvars, clients>>

NextRetarget == RetargetNewBlock

SpecRetarget == InitRetarget /\ [][NextRetarget]_vars

\* ------------------------------------------- a miner and a full mempool

\* the most entries the mempool of the mining specification holds, and the
\* most blocks its miner adds
MaxPool == 21
MaxMined == 2

\* a transaction without inputs that pays nothing to one new output
FreeTransaction(id) == Transaction(<<>>, <<TransactionOutput(0, id, "K2")>>)

\* Uuid::new_v4 for the next such transaction: an id no transaction of the
\* chain or the mempool carries
FreshId(bs, pool) == Len(ChainTransactions(bs)) + Len(pool)

\* iter().take(n)
Take(s, n) == SubSeq(s, 1, Min(n, Len(s)))

\* a FetchTemplate that skips the last step and leaves in the header the
\* Merkle root computed before the coinbase was given its value
FetchTemplateStaleRoot(bc, pubkey, t) ==
    LET transactions ==
            <<Transaction(<<>>, <<TransactionOutput(0, Len(bc.blocks), pubkey)>>)>>
                \o Take([i \in 1 .. Len(bc.mempool) |-> bc.mempool[i].tx],
                        BLOCK_TRANSACTION_CAP)
        miner_fees == CalculateMinerFees(Block(<<>>, transactions), bc.utxos)
        reward == CalculateBlockReward(Len(bc.blocks))
        with_reward ==
            [transactions EXCEPT ![1].outputs[1].value = reward + miner_fees.fees]
    IN  [sent |-> ~miner_fees.err,
         block |-> Block(BlockHeader(t, 0,
                                     IF bc.blocks = <<>> THEN ZeroHash
                                     ELSE BlockHash(bc.blocks[Len(bc.blocks)]),
                                     MerkleCalculate(transactions), bc.target),
                         with_reward)]

\* handle_connection, FetchTemplate(pubkey), at time t: whether a Template
\* is sent, and its block
FetchTemplate(bc, pubkey, t) ==
    LET transactions ==
            <<Transaction(<<>>, <<TransactionOutput(0, Len(bc.blocks), pubkey)>>)>>
                \o Take([i \in 1 .. Len(bc.mempool) |-> bc.mempool[i].tx],
                        BLOCK_TRANSACTION_CAP)
        miner_fees == CalculateMinerFees(Block(<<>>, transactions), bc.utxos)
        reward == CalculateBlockReward(Len(bc.blocks))
        with_reward ==
            [transactions EXCEPT ![1].outputs[1].value = reward + miner_fees.fees]
    IN  [sent |-> ~miner_fees.err,
         block |-> MakeBlock(t, 0,
                             IF bc.blocks = <<>> THEN ZeroHash
                             ELSE BlockHash(bc.blocks[Len(bc.blocks)]),
                             TRUE, bc.target, with_reward)]

\* the miner: BlockHeader::mine on the template
Mined(block) == [block EXCEPT !.header.nonce = MinedNonce(block.header.timestamp)]

\* handle_connection, SubmitTransaction(tx), for a new free transaction
PoolSubmitTransaction ==
    /\ Len(mempool) < MaxPool
    /\ \E r \in AddToMempool(Blockchain,
                             FreeTransaction(FreshId(blocks, mempool)), now) :
            /\ SetChain(r.bc)
            /\ last' = [op |-> "add_to_mempool", res |-> r.res]
    /\ UNCHANGED <<now, netvars, clients>>

\* a miner fetches a template, mines it and submits it (FetchTemplate, then
\* SubmitTemplate: add_block, rebuild_utxos on success), which takes a second
MineTemplate ==
    /\ Len(blocks) < MaxMined
    /\ LET template == FetchTemplate(Blockchain, "K1", now)
       IN  /\ template.sent
           /\ \E r \in AddBlock(Blockchain, Mined(template.block)) :
                /\ SetChain(IF r.res = "Ok"
                            THEN [r.bc EXCEPT !.utxos = RebuildUtxos(r.bc.blocks, r.bc.utxos)]
                            ELSE r.bc)
                /\ last' = [op |-> "add_block", res |-> r.res]
    /\ now' = now + 1
    /\ UNCHANGED <<netvars, clients>>

NextMining == PoolSubmitTransaction \/ MineTemplate

SpecMining == Init /\ [][NextMining]_vars

\* ------------------------------------------------- a node and its peer

\* This node, A, was started with the address of node B, which was started
\* with the address of a node C: populate_connections leaves B in A's NODES
\* and C in B's. A miner and a wallet are connected to A. Both chains start
\* from the same first block with UTXO maps rebuilt from it.

MaxNetBlocks == 3
MaxNetPool == 1

NODES == [A |-> <<"B">>, B |-> <<"C">>]

NewBlockMessage(block) == [kind |-> "NewBlock", body |-> block]
NewTransactionMessage(tx) == [kind |-> "NewTransaction", body |-> tx]

FirstBlock == MinedBlock(<<>>, MIN_TARGET, 0)

Synced == [blocks |-> <<FirstBlock>>,
           utxos |-> RebuildUtxos(<<FirstBlock>>, EmptyMap),
           target |-> MIN_TARGET,
           mempool |-> <<>>]

InitNet ==
    /\ blocks = Synced.blocks
    /\ utxos = Synced.utxos
    /\ target = Synced.target
    /\ mempool = Synced.mempool
    /\ now = 0
    /\ last = [op |-> "new", res |-> "Ok"]
    /\ peer = Synced
    /\ written = [A |-> <<>>, B |-> <<>>]
    /\ read = 0
    /\ connected = TRUE
    /\ holder = "none"
    /\ pc = [t \in Tasks |-> Receiving]
    /\ NoClients

\* the blocks the miner submits on the chain bs: the coinbase alone, or the
\* coinbase and a transaction spending one of the node's UTXOs, signed by
\* its owner (a transaction the miner holds; it need not be in a mempool)
NetTemplates(bs, us) ==
    LET ts == bs[Len(bs)].header.timestamp + 1
        lists == {<<Coinbase(Reward, Len(bs) + 1)>>}
                 \cup {<<Coinbase(Reward, Len(bs) + 1),
                         Spend(h, OwnerSignature(h), h.pre.value, Len(bs) + 1)>> :
                          h \in DOMAIN us}
    IN  {MakeBlock(ts, MinedNonce(ts), BlockHash(bs[Len(bs)]), TRUE, MIN_TARGET, txs) :
            txs \in lists}

\* the transactions the wallet submits: a UTXO of the node paid on
NetTransactions(bs, us) ==
    {Spend(h, OwnerSignature(h), h.pre.value, MaxNetBlocks + Len(bs) + 1) :
        h \in DOMAIN us}

\* what a handler does after a successful add_block or add_to_mempool: the
\* guard of BLOCKCHAIN.write() stays in scope, the keys of NODES are
\* collected, and the loop over them starts
StartGossip(task, message) ==
    /\ holder' = task
    /\ pc' = [pc EXCEPT ![task] = [at |-> "gossip", message |-> message,
                                   nodes |-> NODES.A]]

\* handle_connection, SubmitTemplate(block), up to the loop: write lock,
\* add_block, rebuild_utxos; an error returns, which drops the guard
NetSubmitTemplate ==
    /\ pc["miner"] = Receiving
    /\ holder = "none"
    /\ Len(blocks) < MaxNetBlocks
    /\ \E block \in NetTemplates(blocks, utxos) :
        \E r \in AddBlock(Blockchain, block) :
            /\ SetChain(IF r.res = "Ok"
                        THEN [r.bc EXCEPT !.utxos = RebuildUtxos(r.bc.blocks, r.bc.utxos)]
                        ELSE r.bc)
            /\ last' = [op |-> "add_block", res |-> r.res]
            /\ IF r.res = "Ok"
               THEN StartGossip("miner", NewBlockMessage(block))
               ELSE UNCHANGED <<holder, pc, clients>>
    /\ UNCHANGED <<now, peer, written, read, connected, clients>>

\* handle_connection, SubmitTransaction(tx), up to the loop: write lock,
\* add_to_mempool; an error returns, which drops the guard
NetSubmitTransaction ==
    /\ pc["wallet"] = Receiving
    /\ holder = "none"
    /\ Len(mempool) < MaxNetPool
    /\ \E tx \in NetTransactions(blocks, utxos) :
        \E r \in AddToMempool(Blockchain, tx, now) :
            /\ SetChain(r.bc)
            /\ last' = [op |-> "add_to_mempool", res |-> r.res]
            /\ IF r.res = "Ok"
               THEN StartGossip("wallet", NewTransactionMessage(tx))
               ELSE UNCHANGED <<holder, pc, clients>>
    /\ UNCHANGED <<now, peer, written, read, connected, clients>>

\* one round of the loop over the collected keys: the message is written
\* to the stream NODES holds for the key (a failed write is only logged)
GossipSend ==
    \E task \in Tasks :
        /\ pc[task].at = "gossip"
        /\ pc[task].nodes # <<>>
        /\ written' = [written EXCEPT !.A =
                          Append(@, [to |-> Head(pc[task].nodes),
                                     message |-> pc[task].message])]
        /\ pc' = [pc EXCEPT ![task].nodes = Tail(@)]
        /\ UNCHANGED <<blocks, utxos, target, mempool, now, last,
                       peer, read, connected, holder, clients>>

\* the end of the match arm: the guard goes out of scope and the task is
\* back at receive_async
EndOfArm ==
    \E task \in Tasks :
        /\ pc[task].at = "gossip"
        /\ pc[task].nodes = <<>>
        /\ holder' = IF holder = task THEN "none" ELSE holder
        /\ pc' = [pc EXCEPT ![task] = Receiving]
        /\ UNCHANGED <<blocks, utxos, target, mempool, now, last,
                       peer, written, read, connected, clients>>

\* handle_connection at B on the socket A connected with, one message:
\* NewBlock calls add_block and logs a rejection; NewTransaction calls
\* add_to_mempool and returns on a rejection. Neither writes to a stream
\* of NODES. A panic ends the task.
PeerReceive ==
    /\ connected
    /\ read < Len(written.A)
    /\ LET message == written.A[read + 1].message
       IN  \E r \in IF message.kind = "NewBlock"
                    THEN AddBlock(peer, message.body)
                    ELSE AddToMempool(peer, message.body, now) :
               /\ peer' = r.bc
               /\ connected' = IF message.kind = "NewBlock"
                               THEN r.res # "Panic"
                               ELSE r.res = "Ok"
    /\ read' = read + 1
    /\ UNCHANGED <<blocks, utxos, target, mempool, now, last, written, holder, pc, clients>>

NextNet ==
    NetSubmitTemplate \/ NetSubmitTransaction \/ GossipSend \/ EndOfArm \/ PeerReceive

SpecNet == InitNet /\ [][NextNet]_vars

\* Every task of the two nodes is scheduled by its runtime and every write
\* to a stream that stays up completes: a step that stays possible is taken.
SpecNetFair ==
    SpecNet /\ WF_vars(GossipSend) /\ WF_vars(EndOfArm) /\ WF_vars(PeerReceive)

\* ------------------------------------------- gossip on two connections

\* Node A with two entries in NODES, a miner and a wallet connected to it.
\* Message::send_async writes a frame in two pieces, the length prefix and
\* the bytes, each with its own await. A task at "lock" has read a message
\* and waits for BLOCKCHAIN.write(); a task at "length" holds the RefMut of
\* NODES.get_mut for the key at the head of its nodes and has written the
\* length prefix. written.A is the log of the pieces written.

GossipPeers == <<"B", "C">>

SubmitTemplateMessage(block) == [kind |-> "SubmitTemplate", body |-> block]
SubmitTransactionMessage(tx) == [kind |-> "SubmitTransaction", body |-> tx]

\* the gossip message a handler builds from the one it was sent
GossipOf(message) ==
    IF message.kind = "SubmitTemplate" THEN NewBlockMessage(message.body)
    ELSE NewTransactionMessage(message.body)

\* receive_async returns the next message of the task's client
GossipReceive ==
    \E task \in Tasks :
        /\ pc[task] = Receiving
        /\ \E message \in
              IF task = "miner"
              THEN {SubmitTemplateMessage(b) :
                       b \in IF Len(blocks) < MaxNetBlocks
                             THEN NetTemplates(blocks, utxos) ELSE {}}
              ELSE {SubmitTransactionMessage(tx) :
                       tx \in IF Len(mempool) < MaxNetPool
                              THEN NetTransactions(blocks, utxos) ELSE {}} :
               pc' = [pc EXCEPT ![task] = [at |-> "lock", message |-> message,
                                           nodes |-> <<>>]]
        /\ UNCHANGED <<blocks, utxos, target, mempool, now, last,
                       peer, written, read, connected, holder, clients>>

\* the result of the Blockchain method the arm of message calls, with the
\* rebuild_utxos that follows a successful add_block
Handled(bc, message, t) ==
    IF message.kind = "SubmitTemplate"
    THEN {[op |-> "add_block", res |-> r.res,
           bc |-> IF r.res = "Ok"
                  THEN [r.bc EXCEPT !.utxos = RebuildUtxos(r.bc.blocks, r.bc.utxos)]
                  ELSE r.bc] : r \in AddBlock(bc, message.body)}
    ELSE {[op |-> "add_to_mempool", res |-> r.res, bc |-> r.bc] :
             r \in AddToMempool(bc, message.body, t)}

\* BLOCKCHAIN.write() is granted: the method runs; on Ok the keys of NODES
\* are collected with the guard in scope, on an error the task returns
GossipLock ==
    \E task \in Tasks :
        /\ pc[task].at = "lock"
        /\ holder = "none"
        /\ \E r \in Handled(Blockchain, pc[task].message, now) :
            /\ SetChain(r.bc)
            /\ last' = [op |-> r.op, res |-> r.res]
            /\ IF r.res = "Ok"
               THEN /\ holder' = task
                    /\ pc' = [pc EXCEPT ![task] =
                                 [at |-> "gossip", message |-> GossipOf(pc[task].message),
                                  nodes |-> GossipPeers]]
               ELSE /\ holder' = holder
                    /\ pc' = [pc EXCEPT ![task] = Receiving]
        /\ UNCHANGED <<now, peer, written, read, connected, clients>>

\* NODES.get_mut(&node) is granted when no other task holds the entry;
\* the first write_all of send_async writes the length prefix
GossipLength ==
    \E task \in Tasks :
        /\ pc[task].at = "gossip"
        /\ pc[task].nodes # <<>>
        /\ \A other \in Tasks \ {task} :
               ~(pc[other].at = "length" /\ Head(pc[other].nodes) = Head(pc[task].nodes))
        /\ written' = [written EXCEPT !.A =
                          Append(@, [to |-> Head(pc[task].nodes), piece |-> "length",
                                     message |-> pc[task].message])]
        /\ pc' = [pc EXCEPT ![task].at = "length"]
        /\ UNCHANGED <<blocks, utxos, target, mempool, now, last,
                       peer, read, connected, holder, clients>>

\* the second write_all writes the bytes; the RefMut is dropped at the end
\* of the if-let and the loop goes on to the next key
GossipBytes ==
    \E task \in Tasks :
        /\ pc[task].at = "length"
        /\ written' = [written EXCEPT !.A =
                          Append(@, [to |-> Head(pc[task].nodes), piece |-> "bytes",
                                     message |-> pc[task].message])]
        /\ pc' = [pc EXCEPT ![task].at = "gossip", ![task].nodes = Tail(@)]
        /\ UNCHANGED <<blocks, utxos, target, mempool, now, last,
                       peer, read, connected, holder, clients>>

NextGossip ==
    GossipReceive \/ GossipLock \/ GossipLength \/ GossipBytes \/ EndOfArm

SpecGossip == InitNet /\ [][NextGossip]_vars

\* ---------------------------------------------------------- initial sync

\* A node started without a snapshot and with the address of one node,
\* peer, whose chain grew block by block through SubmitTemplate. read is
\* the number of blocks downloaded and connected says that the download
\* is running; last.op is "new" until the node is started.

MaxSyncBlocks == 4

InitSync ==
    /\ blocks = <<>>
    /\ utxos = EmptyMap
    /\ target = MIN_TARGET
    /\ mempool = <<>>
    /\ now = 0
    /\ last = [op |-> "new", res |-> "Ok"]
    /\ peer = Synced
    /\ written = [A |-> <<>>, B |-> <<>>]
    /\ read = 0
    /\ connected = FALSE
    /\ holder = "none"
    /\ pc = [t \in Tasks |-> Receiving]
    /\ NoClients

\* handle_connection at the peer, SubmitTemplate(block), before the node
\* is started: add_block, then rebuild_utxos
PeerSubmitTemplate ==
    /\ last.op = "new"
    /\ Len(peer.blocks) < MaxSyncBlocks
    /\ \E block \in NetTemplates(peer.blocks, peer.utxos) :
        \E r \in AddBlock(peer, block) :
            /\ r.res = "Ok"
            /\ peer' = [r.bc EXCEPT !.utxos = RebuildUtxos(r.bc.blocks, r.bc.utxos)]
    /\ UNCHANGED <<blocks, utxos, target, mempool, now, last,
                   written, read, connected, holder, pc, clients>>

\* main: populate_connections and find_longest_chain_node name the peer and
\* the number of its blocks
SyncStart ==
    /\ last.op = "new"
    /\ connected' = TRUE
    /\ last' = [op |-> "find_longest_chain_node", res |-> "Ok"]
    /\ UNCHANGED <<blocks, utxos, target, mempool, now, peer, written, read,
                   holder, pc, clients>>

\* download_blockchain, one round: FetchBlock(read) is answered with the
\* block of that height and add_block is called on it; an error ends the
\* download and with it main
SyncFetchBlock ==
    /\ connected
    /\ read < Len(peer.blocks)
    /\ \E r \in AddBlock(Blockchain, peer.blocks[read + 1]) :
        /\ SetChain(r.bc)
        /\ last' = [op |-> "add_block", res |-> r.res]
        /\ read' = IF r.res = "Ok" THEN read + 1 ELSE read
        /\ connected' = (r.res = "Ok")
    /\ UNCHANGED <<now, peer, written, holder, pc, clients>>

\* main after download_blockchain returned Ok: rebuild_utxos, then
\* try_adjust_target
SyncFinish ==
    /\ connected
    /\ read = Len(peer.blocks)
    /\ last.op # "try_adjust_target"
    /\ utxos' = RebuildUtxos(blocks, utxos)
    /\ target' = TryAdjustTarget(blocks, target)
    /\ last' = [op |-> "try_adjust_target", res |-> "Ok"]
    /\ UNCHANGED <<blocks, mempool, now, peer, written, read, connected, holder, pc, clients>>

NextSync == PeerSubmitTemplate \/ SyncStart \/ SyncFetchBlock \/ SyncFinish

SpecSync == InitSync /\ [][NextSync]_vars

\* ------------------------------------------------------------ the miner

\* A miner connected to the node, and other miners whose blocks reach the
\* node. The clock stands still during a behaviour; it starts at 0 or at
\* LateClock, where no nonce of a sweep window meets MIN_TARGET.

MaxWindows == 3
MaxMinerBlocks == 2

\* the 2_000_000 steps of a sweep window, scaled
MineSteps == 3
LateClock == 300

\* BlockHeader::mine(steps) on block: whether it returns true, and the block
\* it leaves. The nonce goes up by one per step from the one it has; the
\* first nonce that meets the target ends the call.
MineWindow(block, steps) ==
    LET hits == {k \in 0 .. steps :
                    MatchesTarget(HeaderHash([block.header EXCEPT !.nonce = @ + k]),
                                  block.header.target)}
        first == CHOOSE k \in hits : \A j \in hits : k <= j
    IN  IF hits = {} THEN [found |-> FALSE,
                           block |-> [block EXCEPT !.header.nonce = @ + steps]]
        ELSE [found |-> TRUE, block |-> [block EXCEPT !.header.nonce = @ + first]]

InitMiner ==
    /\ blocks = <<>>
    /\ utxos = EmptyMap
    /\ target = MIN_TARGET
    /\ mempool = <<>>
    /\ now \in {0, LateClock}
    /\ last = [op |-> "new", res |-> "Ok"]
    /\ NoPeers
    /\ miner = [NoMiner EXCEPT !.running = TRUE]
    /\ wallet = NoWallet

\* Miner::run, the tick of template_interval: fetch_and_validate_template.
\* With mining unset, fetch_template: the node's Template becomes the
\* current one and mining is set. With mining set, validate_template: the
\* node answers whether the template still names its tip; if not, mining
\* is unset.
MinerTick ==
    /\ miner.running
    /\ IF ~miner.mining
       THEN LET template == FetchTemplate(Blockchain, "K1", now)
            IN  miner' = IF template.sent
                         THEN [miner EXCEPT !.current_template = <<template.block>>,
                                            !.mining = TRUE,
                                            !.worker = <<>>]
                         ELSE [miner EXCEPT !.running = FALSE]
       ELSE LET valid ==
                    miner.current_template[1].header.prev_block_hash
                        = IF blocks = <<>> THEN ZeroHash
                          ELSE BlockHash(blocks[Len(blocks)])
            IN  miner' = IF valid THEN [miner EXCEPT !.validated = TRUE]
                         ELSE [miner EXCEPT !.mining = FALSE]
    /\ UNCHANGED <<blocks, utxos, target, mempool, now, last, netvars, wallet>>

\* the worker thread, one round of its loop with mining set: a clone of the
\* current template is mined for one window; a mined block goes into the
\* channel and mining is unset
WorkerWindow ==
    /\ miner.running
    /\ miner.mining
    /\ miner.current_template # <<>>
    /\ miner.windows < MaxWindows
    /\ LET swept == MineWindow(miner.current_template[1], MineSteps)
       IN  miner' = [miner EXCEPT
                        !.worker = miner.current_template,
                        !.validated = FALSE,
                        !.windows = @ + 1,
                        !.mined = IF swept.found THEN Append(@, swept.block) ELSE @,
                        !.mining = IF swept.found THEN FALSE ELSE @]
    /\ UNCHANGED <<blocks, utxos, target, mempool, now, last, netvars, wallet>>

\* Miner::run, a block from the channel: submit_block sends SubmitTemplate
\* and unsets mining; the node's handler calls add_block and rebuild_utxos,
\* or closes the connection on a rejection
MinerSubmitBlock ==
    /\ miner.running
    /\ miner.mined # <<>>
    /\ \E r \in AddBlock(Blockchain, Head(miner.mined)) :
        /\ SetChain(IF r.res = "Ok"
                    THEN [r.bc EXCEPT !.utxos = RebuildUtxos(r.bc.blocks, r.bc.utxos)]
                    ELSE r.bc)
        /\ last' = [op |-> "add_block", res |-> r.res]
        /\ miner' = [miner EXCEPT !.mined = Tail(@), !.mining = FALSE,
                                  !.running = (r.res = "Ok")]
    /\ UNCHANGED <<now, netvars, wallet>>

\* handle_connection, SubmitTemplate(block), for a block of another miner
OtherMinerBlock ==
    /\ Len(blocks) < MaxMinerBlocks
    /\ \E r \in AddBlock(Blockchain,
                         MinedBlock(blocks, target,
                                    IF blocks = <<>> THEN now
                                    ELSE blocks[Len(blocks)].header.timestamp + 1)) :
        /\ SetChain(IF r.res = "Ok"
                    THEN [r.bc EXCEPT !.utxos = RebuildUtxos(r.bc.blocks, r.bc.utxos)]
                    ELSE r.bc)
        /\ last' = [op |-> "add_block", res |-> r.res]
    /\ UNCHANGED <<now, netvars, clients>>

NextMiner == MinerTick \/ WorkerWindow \/ MinerSubmitBlock \/ OtherMinerBlock

SpecMiner == InitMiner /\ [][NextMiner]_vars

MaxSeconds == 2

\* a second passes
Second ==
    /\ now < MaxSeconds
    /\ now' = now + 1
    /\ UNCHANGED <<blocks, utxos, target, mempool, last, netvars, clients>>

\* a single miner connected to the node and no other source of blocks, while
\* time passes
NextSoloMiner == MinerTick \/ WorkerWindow \/ MinerSubmitBlock \/ Second

SpecSoloMiner == InitMiner /\ [][NextSoloMiner]_vars

\* --------------------------------------------------------- save and load

\* Saveable::save for Blockchain: the serde encoding of the struct. The
\* field mempool is skip_serializing; utxos, with the flag of every entry,
\* target and blocks are written.
Save(bc) == [utxos |-> bc.utxos, target |-> bc.target, blocks |-> bc.blocks]

\* Saveable::load for Blockchain: the written fields are read back and
\* mempool, absent from the encoding, takes its serde default
Load(encoded) ==
    [blocks |-> encoded.blocks, utxos |-> encoded.utxos, target |-> encoded.target,
     mempool |-> <<>>]

\* util::load_blockchain of the node: load, rebuild_utxos, try_adjust_target
LoadBlockchain(encoded) ==
    LET loaded == Load(encoded)
        rebuilt == [loaded EXCEPT !.utxos = RebuildUtxos(loaded.blocks, loaded.utxos)]
    IN  [rebuilt EXCEPT !.target = TryAdjustTarget(rebuilt.blocks, rebuilt.target)]

\* --------------------------------------------------------------- wallet

\* u64 of the wallet's amounts, scaled to 8 bits
U64Space == 2 ^ 8

NoResult == [res |-> "None"]

\* PublicKey derives Ord: the order in which the SkipMap of the UtxoStore
\* iterates its keys
KeyOrder == <<"K1", "K2">>

FeeConfigs ==
    {[fee_type |-> "Fixed", value |-> 0], [fee_type |-> "Fixed", value |-> 2],
     [fee_type |-> "Percent", value |-> 10]}

\* Core::load: the keys of the configuration in the order of the file, the
\* UTXO map empty
LoadedWallets ==
    {[utxos |-> <<>>, config |-> [my_keys |-> ks, fee_config |-> f],
      result |-> NoResult] :
        ks \in {<<"K1", "K2">>, <<"K2", "K1">>, <<"K2">>}, f \in FeeConfigs}

\* the lists a node can answer FetchUTXOs(key) with: outputs of that key,
\* each with its mark
Held(v, id, k, m) == [marked |-> m, output |-> TransactionOutput(v, id, k)]

UtxoReplies(k) ==
    {<<>>,
     <<Held(20, 1, k, FALSE)>>,
     <<Held(20, 1, k, TRUE)>>,
     <<Held(20, 1, k, FALSE), Held(50, 2, k, FALSE)>>,
     <<Held(20, 1, k, TRUE), Held(50, 2, k, FALSE)>>,
     <<Held(50, 2, k, FALSE), Held(20, 1, k, TRUE)>>,
     <<Held(200, 3, k, FALSE), Held(100, 4, k, FALSE)>>}

\* Core::calculate_fee
CalculateFee(fee_config, amount) ==
    IF fee_config.fee_type = "Fixed" THEN fee_config.value
    ELSE (amount * fee_config.value) \div 100

\* the unmarked entries in the order create_transaction walks them: the
\* SkipMap by key, each list front to back; each entry with the key it is
\* held for
WalkedKeys(w) ==
    SelectSeq(KeyOrder, LAMBDA k : k \in DOMAIN w.utxos)

Unmarked(w) ==
    Flatten([i \in 1 .. Len(WalkedKeys(w)) |->
        LET k == WalkedKeys(w)[i]
            unmarked == SelectSeq(w.utxos[k], LAMBDA e : ~e.marked)
        IN  [j \in 1 .. Len(unmarked) |->
                [key |-> k, utxo |-> unmarked[j].output]]])

\* the two loops of create_transaction from entry i on: input_sum and the
\* inputs pushed so far; a u64 addition that overflows panics in a build with
\* overflow checks and wraps in one without
RECURSIVE Gather(_, _, _, _, _, _)
Gather(entries, i, input_sum, inputs, total_amount, checked) ==
    IF i > Len(entries) \/ input_sum >= total_amount
    THEN [res |-> "Ok", input_sum |-> input_sum, inputs |-> inputs]
    ELSE LET e == entries[i]
             input == TransactionInput(OutputHash(e.utxo),
                          SignOutput(OutputHash(e.utxo), e.key))
             sum == input_sum + e.utxo.value
         IN  IF sum >= U64Space /\ checked
             THEN [res |-> "Panic", input_sum |-> input_sum, inputs |-> inputs]
             ELSE Gather(entries, i + 1, sum % U64Space, Append(inputs, input),
                         total_amount, checked)

\* Core::create_transaction; the unique_id of output j is the fresh id j
CreateTransaction(w, recipient, amount, checked) ==
    LET fee == CalculateFee(w.config.fee_config, amount)
        total_amount == (amount + fee) % U64Space
        gathered == Gather(Unmarked(w), 1, 0, <<>>, total_amount, checked)
        input_sum == gathered.input_sum
        change == IF input_sum > total_amount
                  THEN <<TransactionOutput(input_sum - total_amount, 1,
                                           w.config.my_keys[1])>>
                  ELSE <<>>
    IN  IF amount + fee >= U64Space /\ checked THEN [res |-> "Panic"]
        ELSE IF gathered.res = "Panic" THEN [res |-> "Panic"]
        ELSE IF input_sum < total_amount THEN [res |-> "InsufficientFunds"]
        ELSE [res |-> "Ok",
              transaction |->
                  Transaction(gathered.inputs,
                      <<TransactionOutput(amount, 0, recipient)>> \o change)]

\* the amounts the send dialog hands over, the largest u64 included
Amounts == {0, 18, 20, 60, 70, U64Space - 2, U64Space - 1}

Recipients == {"K1", "K3"}

InitWallet ==
    /\ blocks = <<>>
    /\ utxos = EmptyMap
    /\ target = MIN_TARGET
    /\ mempool = <<>>
    /\ now = 0
    /\ last = [op |-> "new", res |-> "Ok"]
    /\ NoPeers
    /\ miner = NoMiner
    /\ wallet \in LoadedWallets

\* Core::fetch_utxos: the list of every loaded key is replaced by the node's
\* answer; no transaction has been created on the new lists
WalletFetchUtxos ==
    /\ \E answer \in [Range(wallet.config.my_keys) -> UNION {UtxoReplies(k) : k \in PubKeys}] :
        /\ \A k \in DOMAIN answer : answer[k] \in UtxoReplies(k)
        /\ wallet' = [wallet EXCEPT !.utxos = answer, !.result = NoResult]
    /\ UNCHANGED <<chain, now, last, netvars, miner>>

\* send_transaction_async of the UI up to the created transaction
WalletCreateTransaction ==
    /\ \E recipient \in Recipients, amount \in Amounts, checked \in BOOLEAN :
        wallet' = [wallet EXCEPT !.result =
            [recipient |-> recipient, amount |-> amount, checked |-> checked]
                @@ CreateTransaction(wallet, recipient, amount, checked)]
    /\ UNCHANGED <<chain, now, last, netvars, miner>>

NextWallet == WalletFetchUtxos \/ WalletCreateTransaction

SpecWallet == InitWallet /\ [][NextWallet]_vars

\* --------------------------------------------------- rewards by height

\* the halvings followed: one past the sixty-fourth
MaxHalvings == 65

\* the first and the last height of every halving period
Heights ==
    {k * HALVING_INTERVAL + d : k \in 0 .. MaxHalvings, d \in {0, HALVING_INTERVAL - 1}}

\* Block::verify_transactions at predicted_block_height h of a block that
\* holds a coinbase alone, which claims v
VerifyCoinbaseAt ==
    /\ \E h \in Heights, extra \in {0, 1}, checked \in BOOLEAN :
        LET v == CalculateBlockReward(h) + extra
            block == Block(BlockHeader(1, 0, ZeroHash,
                                       MerkleCalculate(<<Coinbase(v, 1)>>), MIN_TARGET),
                           <<Coinbase(v, 1)>>)
        IN  last' = [op |-> "verify_transactions",
                     res |-> VerifyTransactions(block, h, EmptyMap, checked),
                     height |-> h, value |-> v]
    /\ UNCHANGED <<chain, now, netvars, clients>>

\* Blockchain::calculate_block_reward on a chain of h blocks
CalculateRewardAt ==
    /\ \E h \in Heights :
        last' = [op |-> "calculate_block_reward", res |-> "Ok",
                 height |-> h, value |-> CalculateBlockReward(h)]
    /\ UNCHANGED <<chain, now, netvars, clients>>

NextReward == VerifyCoinbaseAt \/ CalculateRewardAt

SpecReward == Init /\ [][NextReward]_vars

\* ------------------------------------------- templates from any mempool

MaxTemplateBlocks == 3
MaxTemplatePool == 2
MaxTemplateRounds == 4

\* the transactions sent to a node for its mempool, those whose input is
\* signed by another key or over another hash included
PoolInputs(bs, us) ==
    TransactionInputs(bs, us)
    \cup UNION {{Spend(h, sig, h.pre.value, 1) : sig \in BadSignatures(h)} :
                   h \in DOMAIN us}

\* handle_connection, SubmitTransaction(tx): add_to_mempool under the write
\* lock
TemplateSubmitTransaction ==
    /\ Len(mempool) < MaxTemplatePool
    /\ \E tx \in PoolInputs(blocks, utxos) :
        \E r \in AddToMempool(Blockchain, tx, now) :
            /\ SetChain(r.bc)
            /\ last' = [op |-> "add_to_mempool", res |-> r.res]
    /\ UNCHANGED <<now, netvars, clients>>

\* a miner's round with the node: FetchTemplate, which sends a Template or
\* returns and so closes the connection; the template mined; SubmitTemplate
\* with it (add_block, rebuild_utxos on success) while nothing else has
\* reached the node. The round takes a second.
TemplateRound ==
    /\ Len(blocks) < MaxTemplateBlocks
    /\ now < MaxTemplateRounds
    /\ LET template == FetchTemplate(Blockchain, "K1", now)
       IN  IF ~template.sent
           THEN /\ last' = [op |-> "fetch_template", res |-> "Closed"]
                /\ UNCHANGED chain
           ELSE \E r \in AddBlock(Blockchain, Mined(template.block)) :
                    /\ SetChain(IF r.res = "Ok"
                                THEN [r.bc EXCEPT !.utxos =
                                         RebuildUtxos(r.bc.blocks, r.bc.utxos)]
                                ELSE r.bc)
                    /\ last' = [op |-> "add_block", res |-> r.res]
    /\ now' = now + 1
    /\ UNCHANGED <<netvars, clients>>

NextTemplate == TemplateSubmitTransaction \/ TemplateRound

SpecTemplate == Init /\ [][NextTemplate]_vars

\* ------------------------------------------------------------ bootstrap

\* A node started with the address of a seed, the peer, whose chain was
\* built block by block through add_block: either the node finds the
\* snapshot the peer's operator saved and loads it, or it finds none and
\* syncs from the peer.

\* the chain lengths of the peer: none, one, and those around a retarget
BootstrapLengths ==
    {0, 1} \cup (DIFFICULTY_UPDATE_INTERVAL - 1
                    .. DIFFICULTY_UPDATE_INTERVAL + MaxPastRetarget)

\* a node that started empty and was sent, as NewBlock, n blocks mined gap
\* seconds apart: add_block has retargeted once if n reached
\* DIFFICULTY_UPDATE_INTERVAL, and NewBlock leaves utxos alone
BuiltNode(n, gap) ==
    [blocks |-> MinedChain(n, gap, FirstRetarget(gap)),
     utxos |-> EmptyMap,
     target |-> IF n >= DIFFICULTY_UPDATE_INTERVAL THEN FirstRetarget(gap)
                ELSE MIN_TARGET,
     mempool |-> <<>>]

InitBootstrap ==
    /\ blocks = <<>>
    /\ utxos = EmptyMap
    /\ target = MIN_TARGET
    /\ mempool = <<>>
    /\ now = 0
    /\ last = [op |-> "new", res |-> "Ok"]
    /\ \E n \in BootstrapLengths, gap \in RetargetGaps : peer = BuiltNode(n, gap)
    /\ written = [A |-> <<>>, B |-> <<>>]
    /\ read = 0
    /\ connected = FALSE
    /\ holder = "none"
    /\ pc = [t \in Tasks |-> Receiving]
    /\ NoClients

\* main with a snapshot: util::load_blockchain of the bytes the peer saved
LoadSnapshot ==
    /\ last.op = "new"
    /\ SetChain(LoadBlockchain(Save(peer)))
    /\ last' = [op |-> "load_blockchain", res |-> "Ok"]
    /\ UNCHANGED <<now, netvars, clients>>

\* main without a snapshot: find_longest_chain_node asks AskDifference(0)
\* and keeps the name of a node only if its Difference exceeds 0, else the
\* empty string; download_blockchain then unwraps NODES.get_mut of that
\* name before its loop
BootstrapStart ==
    /\ last.op = "new"
    /\ LET longest_count == Len(peer.blocks)
           longest_name == IF longest_count > 0 THEN "B" ELSE ""
       IN  IF longest_name \in Range(NODES.A)
           THEN /\ connected' = TRUE
                /\ last' = [op |-> "find_longest_chain_node", res |-> "Ok"]
           ELSE /\ connected' = FALSE
                /\ last' = [op |-> "download_blockchain", res |-> "Panic"]
    /\ UNCHANGED <<blocks, utxos, target, mempool, now, peer, written, read,
                   holder, pc, clients>>

NextBootstrap == LoadSnapshot \/ BootstrapStart \/ SyncFetchBlock \/ SyncFinish

SpecBootstrap == InitBootstrap /\ [][NextBootstrap]_vars

\* ----------------------------------------------------------- properties

\* the errors add_block and add_to_mempool return
BtcErrors == {"InvalidBlock", "InvalidMerkleRoot", "InvalidTransaction",
              "InvalidSignature"}

\* C1: whenever add_block returns an error, blocks, utxos, target and
\* mempool are exactly what they were before the call.
C1_AddBlockErrorChangesNothing ==
    [][(last'.op = "add_block" /\ last'.res \in BtcErrors) => UNCHANGED chain]_vars

\* a block has been rejected by a node that holds a chain and a mempool
C1_Witness ==
    /\ last.op = "add_block"
    /\ last.res \in BtcErrors
    /\ blocks # <<>>
    /\ mempool # <<>>
    /\ \E h \in DOMAIN utxos : utxos[h].marked

\* the output hashes the inputs of the transactions txs name, in order
SpentHashes(txs) == Flatten([i \in 1 .. Len(txs) |-> InputHashes(txs[i])])

\* C2: over the whole accepted chain every output hash is consumed by at
\* most one input. Stated for the blocks add_block validates, those after
\* the first: no two of their inputs name the same output hash.
C2_NoDoubleSpend ==
    NoDuplicates(SpentHashes(ChainTransactions(SubSeq(blocks, 2, Len(blocks)))))

\* the sum of the values of the entries of a UTXO map
RECURSIVE TotalValue(_)
TotalValue(m) ==
    IF DOMAIN m = {} THEN 0
    ELSE LET k == CHOOSE k \in DOMAIN m : TRUE
         IN  m[k].output.value + TotalValue(MapRemoveAll(m, {k}))

\* the sum of block_reward(h) over the heights h below height
RECURSIVE TotalReward(_)
TotalReward(height) ==
    IF height = 0 THEN 0
    ELSE VerifierBlockReward(height - 1) + TotalReward(height - 1)

\* C3: after rebuild_utxos the values in utxos sum to the block rewards of
\* all heights of the chain. Stated for the chains whose first block is a
\* coinbase paying exactly the reward.
C3_Conservation ==
    (blocks # <<>> /\ blocks[1].transactions = <<Coinbase(Reward, 1)>>)
        => TotalValue(RebuildUtxos(blocks, utxos)) = TotalReward(Len(blocks))

C5_TimestampsIncrease ==
    \A i \in 1 .. Len(blocks) - 1 :
        blocks[i].header.timestamp < blocks[i + 1].header.timestamp

\* a chain of three blocks stamped 1, 2, 3
C5_Witness ==
    /\ Len(blocks) = 3
    /\ \A i \in 1 .. 3 : blocks[i].header.timestamp = i

\* C6: the header hash of every block after the first, read as a number,
\* is at most that block's own header.target.
C6_ProofOfWork ==
    \A i \in 2 .. Len(blocks) :
        HashAsNumber(HeaderHash(blocks[i].header)) <= blocks[i].header.target

\* a block accepted on a target of its own that its hash meets, though the
\* hash exceeds the chain's target
C6_Witness ==
    \E i \in 2 .. Len(blocks) :
        /\ blocks[i].header.target = EASY_TARGET
        /\ HashAsNumber(HeaderHash(blocks[i].header)) > target
        /\ HashAsNumber(HeaderHash(blocks[i].header)) <= EASY_TARGET

\* C7 (as amended): the merkle_root of every block after the first is the
\* Merkle root recomputed over its transactions; the first block's is not
\* checked.
C7_MerkleRootAfterGenesis ==
    \A i \in 2 .. Len(blocks) :
        /\ blocks[i].transactions # <<>>
        /\ blocks[i].header.merkle_root = MerkleCalculate(blocks[i].transactions)

\* C7 as stated: the merkle_root of every accepted block is the Merkle root
\* recomputed over its transactions.
C7_MerkleRootEveryBlock ==
    \A i \in 1 .. Len(blocks) :
        /\ blocks[i].transactions # <<>>
        /\ blocks[i].header.merkle_root = MerkleCalculate(blocks[i].transactions)

\* a block of two transactions accepted onto a first block whose root is
\* not the root of its transactions
C7_Witness ==
    /\ Len(blocks) >= 2
    /\ blocks[1].transactions # <<>>
    /\ blocks[1].header.merkle_root # MerkleCalculate(blocks[1].transactions)
    /\ Len(blocks[2].transactions) = 2
    /\ blocks[2].header.merkle_root = MerkleCalculate(blocks[2].transactions)

\* the inputs of the transactions of block after its coinbase
SpendingInputs(block) ==
    LET txs == Skip1(block.transactions)
    IN  UNION {Range(txs[i].inputs) : i \in 1 .. Len(txs)}

\* input is signed over a hash other than the one it spends
SignedOverAnotherHash(input) ==
    input.signature.msg # input.prev_transaction_output_hash

\* block with every input signed by the owner of the output it names, over
\* that output's hash, and the Merkle root of a well-rooted block renewed
Resigned(block) ==
    LET resign(tx) ==
            [tx EXCEPT !.inputs =
                [j \in 1 .. Len(tx.inputs) |->
                    [tx.inputs[j] EXCEPT !.signature =
                        OwnerSignature(tx.inputs[j].prev_transaction_output_hash)]]]
        txs == [i \in 1 .. Len(block.transactions) |-> resign(block.transactions[i])]
        rooted == /\ block.transactions # <<>>
                  /\ block.header.merkle_root = MerkleCalculate(block.transactions)
    IN  [header |-> [block.header EXCEPT
                        !.merkle_root = IF rooted THEN MerkleCalculate(txs) ELSE @],
         transactions |-> txs]

\* every spending input of the blocks after the first is signed over the
\* hash of the output it names by the key that output pays
ChainSignaturesVerify ==
    \A i \in 2 .. Len(blocks) : \A input \in SpendingInputs(blocks[i]) :
        /\ input.signature.msg = input.prev_transaction_output_hash
        /\ input.signature.by = input.prev_transaction_output_hash.pre.pubkey

\* the blocks sent to a node with a chain that carry an input signed over
\* another hash
ForeignSignedInputs ==
    IF blocks = <<>> THEN {}
    ELSE {block \in BlockInputs(blocks, utxos, mempool) :
             \E input \in SpendingInputs(block) : SignedOverAnotherHash(input)}

CoinbaseTotal(block) == SumSeq(OutputValues(block.transactions[1]))

\* inputs minus outputs over the transactions of block after its coinbase
BlockFees(block) ==
    LET txs == Skip1(block.transactions)
    IN  SumSeq([i \in 1 .. Len(txs) |-> NominalFee(txs[i])])

\* block passes the link, proof-of-work, Merkle and timestamp checks on a
\* chain that ends in tip
HeaderChecksPass(tip, block) ==
    /\ block.header.prev_block_hash = BlockHash(tip)
    /\ HashAsNumber(HeaderHash(block.header)) <= block.header.target
    /\ block.transactions # <<>>
    /\ block.header.merkle_root = MerkleCalculate(block.transactions)
    /\ block.header.timestamp > tip.header.timestamp

\* the coinbase outputs of every block after the first sum to the reward of
\* its height plus the fees of its other transactions
ChainCoinbasesExact ==
    \A i \in 2 .. Len(blocks) :
        CoinbaseTotal(blocks[i]) = VerifierBlockReward(i - 1) + BlockFees(blocks[i])

\* the blocks sent to a node with a chain whose coinbase claims the reward,
\* the fees and one unit more
OverclaimingInputs ==
    IF blocks = <<>> THEN {}
    ELSE {block \in BlockInputs(blocks, utxos, mempool) :
             /\ block.transactions # <<>>
             /\ CoinbaseTotal(block) =
                    VerifierBlockReward(Len(blocks)) + BlockFees(block) + 1}

ReservedHashes == UNION {Range(InputHashes(mempool[i].tx)) : i \in 1 .. Len(mempool)}

\* the transactions sent to the node that spend an output a transaction of
\* the mempool spends
ReusingInputs ==
    {tx \in TransactionInputs(blocks, utxos) :
        Range(InputHashes(tx)) \cap ReservedHashes # {}}

\* tx names known UTXOs, each once, and pays out no more than they hold
ValidOnItsOwn(tx) ==
    /\ \A h \in Range(InputHashes(tx)) : h \in DOMAIN utxos
    /\ Cardinality(Range(InputHashes(tx))) = Len(tx.inputs)
    /\ SumSeq([j \in 1 .. Len(tx.inputs) |->
                  utxos[tx.inputs[j].prev_transaction_output_hash].output.value])
           >= SumSeq([j \in 1 .. Len(tx.outputs) |-> tx.outputs[j].value])

\* C10 (as amended): once the mempool holds a transaction spending UTXO u,
\* add_to_mempool of a second transaction that reuses u returns
\* InvalidTransaction only when the second transaction is invalid on its
\* own (an unknown or repeated input, or outputs above inputs); otherwise
\* the call does not reject it: the second transaction joins the mempool
\* and u is marked for it.
C10_ReuseIsAdmitted ==
    \A tx \in ReusingInputs : \A r \in AddToMempool(Blockchain, tx, now) :
        /\ r.res = "InvalidTransaction" <=> ~ValidOnItsOwn(tx)
        /\ ValidOnItsOwn(tx) =>
              /\ r.res \in {"Ok", "Panic"}
              /\ \E i \in 1 .. Len(r.bc.mempool) : r.bc.mempool[i].tx = tx
              /\ \A h \in Range(InputHashes(tx)) : r.bc.utxos[h].marked

\* C10 as stated: once the mempool holds a transaction spending UTXO u,
\* add_to_mempool of a second transaction that reuses u is rejected with
\* InvalidTransaction.
C10_ReuseIsRejected ==
    \A tx \in ReusingInputs : \A r \in AddToMempool(Blockchain, tx, now) :
        r.res = "InvalidTransaction"

\* add_to_mempool has admitted a second transaction that spends the UTXO
\* the first spends, and both are in the mempool
C10_Witness ==
    /\ last = [op |-> "add_to_mempool", res |-> "Ok"]
    /\ Len(mempool) = 2
    /\ mempool[1].tx # mempool[2].tx
    /\ \E h \in DOMAIN utxos :
          /\ utxos[h].marked
          /\ h \in Range(InputHashes(mempool[1].tx))
          /\ h \in Range(InputHashes(mempool[2].tx))

\* C11: no two mempool entries have an input referencing the same UTXO
\* (the entry that had reserved a UTXO is evicted when a transaction
\* spending that UTXO is admitted).
C11_OneSpenderPerUtxo ==
    \A i, j \in 1 .. Len(mempool) :
        i # j => Range(InputHashes(mempool[i].tx))
                    \cap Range(InputHashes(mempool[j].tx)) = {}

\* C12: after add_to_mempool has admitted a transaction the mempool is
\* sorted by descending miner fee, inputs minus outputs. Stated for the
\* mempools whose entries spend different UTXOs.
C12_SortedByDescendingFee ==
    (last = [op |-> "add_to_mempool", res |-> "Ok"] /\ C11_OneSpenderPerUtxo) =>
        \A i \in 1 .. Len(mempool) - 1 :
            NominalFee(mempool[i].tx) >= NominalFee(mempool[i + 1].tx)

\* C13: a UTXO is marked if and only if some mempool entry has an input
\* referencing it.
C13_MarkedIffReserved ==
    \A h \in DOMAIN utxos : utxos[h].marked <=> h \in ReservedHashes

\* C14: whenever add_to_mempool returns an error, utxos with every mark,
\* mempool, blocks and target are exactly what they were before the call.
C14_AddToMempoolErrorChangesNothing ==
    [][(last'.op = "add_to_mempool" /\ last'.res \in BtcErrors)
          => UNCHANGED chain]_vars

\* the times at which a clean-up may run next: now or later, up to just
\* past the age limit
CleanupTimes ==
    {now + d : d \in {0, MAX_MEMPOOL_TRANSACTION_AGE - 1,
                      MAX_MEMPOOL_TRANSACTION_AGE, MAX_MEMPOOL_TRANSACTION_AGE + 1}}

\* C15: after cleanup_mempool run at time t the mempool holds exactly the
\* previous entries admitted at most MAX_MEMPOOL_TRANSACTION_AGE seconds
\* before t, in their order; every UTXO an evicted entry's input references
\* is unmarked; every other UTXO and its mark, blocks and target are as
\* before.
C15_CleanupEvictsByAge ==
    \A t \in CleanupTimes :
        LET after == CleanupMempool(Blockchain, t)
            Kept(e) == t - e.timestamp <= MAX_MEMPOOL_TRANSACTION_AGE
            gone == UNION {Range(InputHashes(mempool[i].tx)) :
                              i \in {k \in 1 .. Len(mempool) : ~Kept(mempool[k])}}
        IN  /\ after.mempool = SelectSeq(mempool, Kept)
            /\ DOMAIN after.utxos = DOMAIN utxos
            /\ \A h \in DOMAIN utxos :
                  /\ after.utxos[h].output = utxos[h].output
                  /\ h \in gone => ~after.utxos[h].marked
                  /\ h \notin gone => after.utxos[h].marked = utxos[h].marked
            /\ after.blocks = blocks
            /\ after.target = target

\* the mempool holds an entry past the age limit, whose UTXO is marked,
\* and a younger one, and the clean-up evicts the one and keeps the other
C15_Witness ==
    /\ \E i, j \in 1 .. Len(mempool) :
          /\ now - mempool[i].timestamp > MAX_MEMPOOL_TRANSACTION_AGE
          /\ now - mempool[j].timestamp <= MAX_MEMPOOL_TRANSACTION_AGE
          /\ \E h \in Range(InputHashes(mempool[i].tx)) :
                h \in DOMAIN utxos /\ utxos[h].marked
    /\ Len(CleanupMempool(Blockchain, now).mempool) \in 1 .. Len(mempool) - 1

Clamp(x, lo, hi) == IF x < lo THEN lo ELSE IF x > hi THEN hi ELSE x

\* seconds between the block DIFFICULTY_UPDATE_INTERVAL back from the end of
\* bs and its last block
Elapsed(bs) ==
    bs[Len(bs)].header.timestamp
        - bs[Len(bs) - DIFFICULTY_UPDATE_INTERVAL + 1].header.timestamp

\* the target the retargeting rule gives a chain bs whose target was tgt
RetargetRule(bs, tgt) ==
    IF Len(bs) > 0 /\ Len(bs) % DIFFICULTY_UPDATE_INTERVAL = 0
    THEN Min(MIN_TARGET,
             Clamp((tgt * Elapsed(bs)) \div (IDEAL_BLOCK_TIME * DIFFICULTY_UPDATE_INTERVAL),
                   tgt \div 4, tgt * 4))
    ELSE tgt

\* C16: whenever a block is appended, the target afterwards is the target
\* before if the new length is no positive multiple of
\* DIFFICULTY_UPDATE_INTERVAL, and otherwise the minimum of MIN_TARGET and
\* floor(target * elapsed / (IDEAL_BLOCK_TIME * DIFFICULTY_UPDATE_INTERVAL))
\* clamped to [target / 4, target * 4]; and the target never exceeds
\* MIN_TARGET.
C16_TargetFollowsRule ==
    /\ [](target <= MIN_TARGET)
    /\ [][blocks' # blocks => target' = RetargetRule(blocks', target)]_vars

\* C17: every block of the chain, and every template the node returns for
\* FetchTemplate, holds at most BLOCK_TRANSACTION_CAP transactions, the
\* coinbase included.
C17_AtMostCapTransactions ==
    /\ \A i \in 1 .. Len(blocks) :
        Len(blocks[i].transactions) <= BLOCK_TRANSACTION_CAP
    /\ FetchTemplate(Blockchain, "K1", now).sent =>
        Len(FetchTemplate(Blockchain, "K1", now).block.transactions)
            <= BLOCK_TRANSACTION_CAP

\* C18: when the connection from A to B stays up, B ends with the block
\* sequence of A: every block A accepted through SubmitTemplate is
\* eventually appended by B, also one spending an output that an earlier
\* submitted block created.
C18_PeerEndsWithSameBlocks ==
    []connected => <>[](peer.blocks = blocks)

\* the messages a node owes its peers: a NewBlock for every block it has
\* appended since the start, a NewTransaction for every mempool entry
Owed(bc) ==
    {NewBlockMessage(bc.blocks[k]) : k \in Len(Synced.blocks) + 1 .. Len(bc.blocks)}
    \cup {NewTransactionMessage(bc.mempool[i].tx) : i \in 1 .. Len(bc.mempool)}

\* every peer in the NODES of node has been written every message of owed
SentToAll(node, owed) ==
    \A m \in owed : \A i \in 1 .. Len(NODES[node]) :
        [to |-> NODES[node][i], message |-> m] \in Range(written[node])

\* C19: every block a node appended and every transaction it admitted, at
\* A from SubmitTemplate and SubmitTransaction and at B from NewBlock and
\* NewTransaction, is in the end sent to every peer in the node's NODES.
C19_AcceptedIsRebroadcast ==
    <>[](SentToAll("A", Owed(Blockchain)) /\ SentToAll("B", Owed(peer)))

\* C20: a task of the node that is about to write a gossip message to a
\* peer's stream does not hold the write lock of BLOCKCHAIN.
C20_NoSendUnderWriteLock ==
    \A task \in Tasks :
        (pc[task].at = "gossip" /\ pc[task].nodes # <<>>) => holder # task

\* the pieces written to the connection of key, in order
PiecesTo(key) ==
    SelectIdx(written.A, {i \in 1 .. Len(written.A) : written.A[i].to = key})

\* a sequence of pieces is made of whole frames: a length prefix, then the
\* bytes of the same message
WholeFrames(pieces) ==
    \A i \in 1 .. Len(pieces) :
        IF i % 2 = 1 THEN pieces[i].piece = "length"
        ELSE pieces[i].piece = "bytes" /\ pieces[i].message = pieces[i - 1].message

\* C21: on each connection of NODES the frames are written one after the
\* other, never interleaved, and while a task is in the middle of a send to
\* one peer no other task with a message to gossip is kept waiting.
C21_SendsSerializedPerPeerOnly ==
    /\ \A i \in 1 .. Len(GossipPeers) :
        LET pieces == PiecesTo(GossipPeers[i])
        IN  WholeFrames(IF Len(pieces) % 2 = 0 THEN pieces
                        ELSE SubSeq(pieces, 1, Len(pieces) - 1))
            /\ (Len(pieces) % 2 = 1 => pieces[Len(pieces)].piece = "length")
    /\ \A task \in Tasks : \A other \in Tasks \ {task} :
        pc[task].at = "length" => pc[other].at # "lock"

\* C22: when B's handler has taken a NewTransaction off the connection,
\* the connection is still open afterwards, also when add_to_mempool
\* rejected the transaction.
C22_RejectedNewTransactionKeepsConnection ==
    [][(connected /\ read' = read + 1
        /\ written.A[read'].message.kind = "NewTransaction") => connected']_vars

\* C23: the initial sync from a peer whose blocks were accepted through
\* SubmitTemplate meets no error in add_block, and when it is over the node
\* holds the blocks of the peer.
C23_SyncReproducesPeerChain ==
    /\ last.op = "add_block" => last.res = "Ok"
    /\ last.op = "try_adjust_target" => blocks = peer.blocks

\* C24: the Blockchain loaded from what save wrote has an empty mempool
\* and no marked UTXO, whatever marks the saved one had.
C24_LoadedHasNoMarks ==
    LET loaded == Load(Save(Blockchain))
    IN  /\ loaded.mempool = <<>>
        /\ \A h \in DOMAIN loaded.utxos : ~loaded.utxos[h].marked

\* C25: with an empty mempool FetchTemplate(pubkey) is answered, for every
\* key, with a block of one transaction: no inputs, one output to pubkey
\* of the value of the block reward at the chain's height; the header names
\* the hash of the tip (zero on an empty chain), the node's target and the
\* Merkle root of that one transaction.
C25_EmptyMempoolTemplate ==
    mempool = <<>> =>
        \A pubkey \in PubKeys :
            LET template == FetchTemplate(Blockchain, pubkey, now)
                block == template.block
            IN  /\ template.sent
                /\ Len(block.transactions) = 1
                /\ block.transactions[1].inputs = <<>>
                /\ Len(block.transactions[1].outputs) = 1
                /\ block.transactions[1].outputs[1].pubkey = pubkey
                /\ block.transactions[1].outputs[1].value
                       = INITIAL_REWARD \div (2 ^ (Len(blocks) \div HALVING_INTERVAL))
                /\ block.header.prev_block_hash
                       = IF blocks = <<>> THEN ZeroHash ELSE BlockHash(blocks[Len(blocks)])
                /\ block.header.target = target
                /\ block.header.merkle_root = TxHash(block.transactions[1])

\* a template for K2 is sent by a node with two blocks and an empty mempool
C25_Witness ==
    /\ mempool = <<>>
    /\ Len(blocks) = 2
    /\ FetchTemplate(Blockchain, "K2", now).sent
    /\ FetchTemplate(Blockchain, "K2", now).block.transactions
           = <<Transaction(<<>>, <<TransactionOutput(INITIAL_REWARD, 2, "K2")>>)>>

\* C26: when the worker starts a sweep window on the template its last
\* window ran on, a ValidateTemplate exchange answered TemplateValidity(true)
\* has been completed since that last window.
C26_ValidatedBeforeEachWindow ==
    [][(miner'.windows = miner.windows + 1
        /\ miner.worker = miner.current_template) => miner.validated]_vars

\* the values of the unmarked UTXOs held for the wallet's keys, summed as
\* numbers
UnmarkedSum(w) ==
    SumSeq([i \in 1 .. Len(Unmarked(w)) |-> Unmarked(w)[i].utxo.value])

\* the hashes of the held outputs that carry a mark
MarkedHashes(w) ==
    {OutputHash(e.output) :
        e \in {h \in UNION {Range(w.utxos[k]) : k \in DOMAIN w.utxos} : h.marked}}

\* what the last create_transaction needed: amount + fee as numbers
Needed(w) == w.result.amount + CalculateFee(w.config.fee_config, w.result.amount)

\* C27: create_transaction fails with insufficient funds if and only if the
\* values of the unmarked UTXOs held for the wallet's keys sum to less than
\* amount + fee, and no input of a created transaction spends a marked UTXO.
C27_InsufficientIffUnmarkedShort ==
    wallet.result.res # "None" =>
        /\ wallet.result.res = "InsufficientFunds"
               <=> UnmarkedSum(wallet) < Needed(wallet)
        /\ wallet.result.res = "Ok" =>
               \A i \in 1 .. Len(wallet.result.transaction.inputs) :
                   wallet.result.transaction.inputs[i].prev_transaction_output_hash
                       \notin MarkedHashes(wallet)

\* the values of the held outputs the inputs of tx spend, in input order
SpentValues(w, tx) ==
    [i \in 1 .. Len(tx.inputs) |->
        (CHOOSE e \in Range(Unmarked(w)) :
            OutputHash(e.utxo) = tx.inputs[i].prev_transaction_output_hash).utxo.value]

\* C28: a transaction returned by create_transaction pays amount to the
\* recipient in output 0, has a change output to the first local key of
\* value input sum - amount - fee exactly when the input sum exceeds
\* amount + fee, has no other output, so inputs minus outputs equal the fee,
\* and the inputs before the last one sum to less than amount + fee.
C28_OutputsAndFee ==
    wallet.result.res = "Ok" =>
        LET tx == wallet.result.transaction
            input_sum == SumSeq(SpentValues(wallet, tx))
            needed == Needed(wallet)
        IN  /\ tx.outputs[1].value = wallet.result.amount
            /\ tx.outputs[1].pubkey = wallet.result.recipient
            /\ Len(tx.outputs) = IF input_sum > needed THEN 2 ELSE 1
            /\ input_sum > needed =>
                   /\ tx.outputs[2].value = input_sum - needed
                   /\ tx.outputs[2].pubkey = wallet.config.my_keys[1]
            /\ input_sum - SumSeq(OutputValues(tx))
                   = CalculateFee(wallet.config.fee_config, wallet.result.amount)
            /\ tx.inputs # <<>> =>
                   SumSeq(SubSeq(SpentValues(wallet, tx), 1, Len(tx.inputs) - 1))
                       < needed

\* first blocks of every make: either link, a nonce that meets the target or
\* not, the root of the transactions or another, a list that is empty, a
\* coinbase of any value, or a coinbase with spends of unknown outputs
FirstBlocks ==
    {MakeBlock(ts, nonce, prev, root_ok, MIN_TARGET, txs) :
        ts \in {0, 1}, nonce \in {0, 1}, prev \in {ZeroHash, BogusRoot},
        root_ok \in BOOLEAN,
        txs \in {<<>>, <<Coinbase(Reward, 1)>>, <<Coinbase(Reward + 1, 1)>>,
                 <<Coinbase(0, 1)>>,
                 <<Coinbase(Reward, 1),
                   Spend(OutputHash(UnknownOutput),
                         OwnerSignature(OutputHash(UnknownOutput)), Reward, 1)>>}}
    \cup GenesisInputs

\* C29: while blocks is empty, add_block accepts a block if and only if its
\* prev_block_hash is the zero hash, whatever its proof of work, Merkle
\* root, timestamp and transactions; an accepted block becomes the chain.
C29_GenesisIffZeroPrev ==
    blocks = <<>> =>
        \A block \in FirstBlocks :
            \A r \in AddBlock(Blockchain, block) :
                /\ r.res = "Ok" <=> block.header.prev_block_hash = ZeroHash
                /\ r.res # "Ok" => r.res = "InvalidBlock" /\ r.bc = Blockchain
                /\ r.res = "Ok" => r.bc.blocks = <<block>>

\* add_block has accepted a first block that has no transaction, hence no
\* coinbase, and a root that is the Merkle root of nothing
C29_Witness ==
    /\ Len(blocks) = 1
    /\ last = [op |-> "add_block", res |-> "Ok"]
    /\ blocks[1].transactions = <<>>
    /\ blocks[1].header.merkle_root = BogusRoot

\* C30: add_block on a non-empty chain, given a block with an empty
\* transaction list, returns InvalidTransaction and leaves the state
\* unchanged; it does not abort in the Merkle root computation.
C30_EmptyListIsInvalidTransaction ==
    blocks # <<>> =>
        \A block \in BlockInputs(blocks, utxos, mempool) :
            block.transactions = <<>> =>
                \A r \in AddBlock(Blockchain, block) :
                    /\ r.res = "InvalidTransaction"
                    /\ r.bc = Blockchain

\* tx names only keys of the UTXO map us and pays out more than they hold
Overspends(tx, us) ==
    /\ tx.inputs # <<>>
    /\ \A h \in Range(InputHashes(tx)) : h \in DOMAIN us
    /\ SumSeq(InputValues(tx, us)) < SumSeq(OutputValues(tx))

\* C31: a block on a non-empty chain that passes the header checks and
\* holds a non-coinbase transaction whose outputs sum to more than the UTXOs
\* its inputs consume is rejected with InvalidTransaction, whatever its
\* coinbase claims, with the state unchanged and no abort in the fee
\* subtraction.
C31_OverspendIsInvalidTransaction ==
    blocks # <<>> =>
        \A block \in BlockInputs(blocks, utxos, mempool) :
            (/\ HeaderChecksPass(blocks[Len(blocks)], block)
             /\ \E i \in 2 .. Len(block.transactions) :
                    Overspends(block.transactions[i], utxos)) =>
                \A r \in AddBlock(Blockchain, block) :
                    /\ r.res = "InvalidTransaction"
                    /\ r.bc = Blockchain

\* (INITIAL_REWARD * 10^8) >> (h / HALVING_INTERVAL), 0 once the shift
\* reaches 64, in the units of the model
ShiftedReward(h) ==
    IF h \div HALVING_INTERVAL >= 64 THEN 0
    ELSE INITIAL_REWARD \div (2 ^ Min(h \div HALVING_INTERVAL, 30))

\* C32: at every height the reward coinbase verification uses equals the
\* reward template assembly uses and equals the initial reward shifted right
\* by the number of halvings (0 from 64 halvings on): a coinbase is accepted
\* exactly when it claims that value, and neither computation aborts.
C32_RewardsAgreeAtEveryHeight ==
    /\ last.op = "calculate_block_reward" =>
           last.value = ShiftedReward(last.height)
    /\ last.op = "verify_transactions" =>
           /\ last.res # "Panic"
           /\ last.res = "Ok" <=> last.value = ShiftedReward(last.height)

\* the body of the loop of rebuild_utxos over the transactions: the inputs
\* of tx removed from the map um, then its outputs inserted unmarked
ReplayTransaction(um, tx) ==
    LET removed == MapRemoveAll(um, Range(InputHashes(tx)))
        new == Range(OutputHashes(tx))
    IN  [h \in DOMAIN removed \cup new |->
            IF h \in new
            THEN [marked |-> FALSE,
                  output |-> CHOOSE o \in Range(tx.outputs) : OutputHash(o) = h]
            ELSE removed[h]]

\* the loops of rebuild_utxos run one transaction after the other, from
\* transaction i on
RECURSIVE ReplayFrom(_, _, _)
ReplayFrom(txs, i, um) ==
    IF i > Len(txs) THEN um
    ELSE ReplayFrom(txs, i + 1, ReplayTransaction(um, txs[i]))

\* the hashes of the outputs the chain bs creates
CreatedHashes(bs) ==
    UNION {Range(OutputHashes(ChainTransactions(bs)[i])) :
              i \in 1 .. Len(ChainTransactions(bs))}

\* the hashes of the outputs of bs that no input later in chain order
\* consumes
Unconsumed(bs) ==
    LET txs == ChainTransactions(bs)
    IN  {h \in CreatedHashes(bs) :
            \E i \in 1 .. Len(txs) :
                /\ h \in Range(OutputHashes(txs[i]))
                /\ \A j \in i + 1 .. Len(txs) : h \notin Range(InputHashes(txs[j]))}

\* the maps utxos can hold on the chain bs: the map it holds, and any part
\* of the outputs bs created, spent ones included, marked or not
PriorMaps(bs) ==
    {utxos} \cup
    {[h \in S |-> [marked |-> m, output |-> h.pre]] :
        S \in SUBSET CreatedHashes(bs), m \in BOOLEAN}

C34_AcceptedAtChainTarget ==
    [][(blocks # <<>> /\ Len(blocks') = Len(blocks) + 1) =>
           blocks'[Len(blocks')].header.target = target]_vars

\* C35: a template the node returns for FetchTemplate, mined and submitted
\* while the node's tip and UTXO set are unchanged, is accepted by
\* add_block, and FetchTemplate does not close the connection, whatever
\* the mempool admitted.
C35_TemplateIsAccepted ==
    /\ last.op = "add_block" => last.res = "Ok"
    /\ last.op # "fetch_template"

\* C36: in every reachable state every input of every mempool transaction
\* names a key of utxos, and add_to_mempool never fails in its closing
\* sort, neither in the lookup of an input nor in the fee subtraction.
C36_MempoolInputsInUtxos ==
    /\ \A i \in 1 .. Len(mempool) : EntryInputsKnown(mempool[i], utxos)
    /\ ~(last.op = "add_to_mempool" /\ last.res = "Panic")

\* C37: once its bootstrap is finished, a node that loaded a snapshot of a
\* chain and a node that synced that chain from a peer hold the target of
\* the node that built the chain block by block through add_block, at every
\* chain length.
C37_SameTargetAfterBootstrap ==
    (last.op \in {"load_blockchain", "try_adjust_target"} /\ blocks = peer.blocks)
        => target = peer.target

\* C38: with a seed configured, no snapshot and the seed answering
\* AskDifference(0) with a Difference of 0, the bootstrap does not abort:
\* the node ends it with an empty chain, ready to listen.
C38_EmptySeedsBootstrap ==
    (peer.blocks = <<>> /\ last.op # "load_blockchain" /\ last.op # "new") =>
        /\ last.res # "Panic"
        /\ blocks = <<>>
        /\ last.op = "try_adjust_target"

\* C39: with a single miner and no other source of blocks, every block the
\* miner sends as SubmitTemplate names, as prev_block_hash, the hash of the
\* node's tip at the moment the node processes it (the zero hash on an
\* empty chain).
C39_SubmittedOnCurrentTip ==
    [][(miner.running /\ miner.mined # <<>> /\ miner'.mined = Tail(miner.mined))
         => Head(miner.mined).header.prev_block_hash
              = IF blocks = <<>> THEN ZeroHash ELSE BlockHash(blocks[Len(blocks)])]_vars

====
